---- MODULE Spec2Model ----
(***************************************************************************)
(* Model of the generic CRUD orchestration layer: the useCRUD hook (five   *)
(* per-verb state cells driven by executeOperation, executeReadOne and     *)
(* executeReadMany) and the createTypedCrud factory that pre-wires the     *)
(* infrastructure-to-UI transformers into the hook's options.              *)
(*                                                                         *)
(* JavaScript runs one async function at a time and switches only at an    *)
(* await: every action below is one synchronous segment of an execute      *)
(* call, from its invocation or from the settling of the promise it        *)
(* awaits up to the next await or to its own settling.                     *)
(*                                                                         *)
(* Every value (inputs, results, errors) is a sequence of strings.  The    *)
(* functions supplied by the caller are uninterpreted: applying function   *)
(* g to x yields Append(x, g), so that g(g(x)), g(x) and x all differ.     *)
(***************************************************************************)
EXTENDS Integers, Sequences, FiniteSets, TLC

VARIABLES
  callerOptions,  \* the options object the caller hands to the hook
  factory,        \* how the hook was obtained: useCRUD or createTypedCrud(...)
  state,          \* the five useState cells: verb -> OperationState
  calls,          \* the calls issued: call number -> its local variables
  crudService,    \* the constructor arguments of the CrudService instance
  adapter         \* a createZodValidationSchema adapter: its schema, its methods' outcomes

vars == <<callerOptions, factory, state, calls, crudService, adapter>>

\* Number of execute calls issued in one behaviour.
MaxCalls == 2

Calls == 1..MaxCalls

Verbs == {"create", "update", "delete", "one", "many"}

CudVerbs == {"create", "update", "delete"}

Bundles == {"create", "update", "delete", "read"}

\* options.create / options.update / options.delete / options.read
Bundle(v) == IF v \in CudVerbs THEN v ELSE "read"

\* null / undefined
Null == <<>>

\* A local variable that has not been assigned yet.
Unset == <<"unset">>

\* The members an OperationOptions object may carry.
CudFns ==
  {"service", "validationSchema", "transformer", "resultTransformer",
   "beforeValidation", "beforeService", "afterService", "onError", "onSuccess"}

\* The members a ReadOperationOptions object may carry (service.getOne and
\* service.getMany flattened).
ReadFns ==
  {"getOne", "getMany", "validationSchema", "transformer",
   "beforeValidation", "beforeService", "afterServiceOne", "afterServiceMany",
   "onErrorOne", "onErrorMany", "onSuccessOne", "onSuccessMany"}

FnsOf(b) == IF b = "read" THEN ReadFns ELSE CudFns

ServiceFn(v) == IF v = "one" THEN "getOne" ELSE IF v = "many" THEN "getMany" ELSE "service"

AfterServiceFn(v) ==
  IF v = "one" THEN "afterServiceOne" ELSE IF v = "many" THEN "afterServiceMany" ELSE "afterService"

OnSuccessFn(v) ==
  IF v = "one" THEN "onSuccessOne" ELSE IF v = "many" THEN "onSuccessMany" ELSE "onSuccess"

OnErrorFn(v) ==
  IF v = "one" THEN "onErrorOne" ELSE IF v = "many" THEN "onErrorMany" ELSE "onError"

(***************************************************************************)
(* Values                                                                  *)
(***************************************************************************)

\* The input of call c: the dto of a create/update/delete, the params of a read.
Dto(c) == <<"dto", ToString(c)>>

\* The identifier of a getOne call.
IdOf(c) == <<"id", ToString(c)>>

\* What the backend resolves for call c: an entity, or for getMany the
\* ReadManyResult {data: [a, b], meta} written <<meta, a, b>>.
BackendResult(c, v) ==
  IF v = "many"
    THEN <<"meta" \o ToString(c), "a" \o ToString(c), "b" \o ToString(c)>>
    ELSE <<"R", ToString(c)>>

\* The value a caller-supplied function g returns for x.
Apply(g, x) == Append(x, g)

\* The value thrown by step g.
Thrown(g) == <<"Error", g>>

(***************************************************************************)
(* OperationState                                                          *)
(***************************************************************************)

DefaultState == [loading |-> FALSE, success |-> FALSE, error |-> Null, data |-> Null]

\* Variant: the loading state keeps a success flag.
LoadingState_KeepsSuccess == [loading |-> TRUE, success |-> TRUE, error |-> Null, data |-> Null]

LoadingState == [loading |-> TRUE, success |-> FALSE, error |-> Null, data |-> Null]

\* Variant: the success state leaves the loading flag up.
SuccessState_StillLoading(r) == [data |-> r, loading |-> TRUE, error |-> Null, success |-> TRUE]

SuccessState(r) == [data |-> r, loading |-> FALSE, error |-> Null, success |-> TRUE]

\* Variant: the error state leaves the loading flag up.
ErrorState_StillLoading(e) == [data |-> Null, loading |-> TRUE, error |-> e, success |-> FALSE]

\* Variant: the error state does not record the error.
ErrorState_DropsError(e) == [data |-> Null, loading |-> FALSE, error |-> Null, success |-> FALSE]

ErrorState(e) == [data |-> Null, loading |-> FALSE, error |-> e, success |-> FALSE]

\* Variant: the override is ignored, every cell starts from the defaults.
InitialStateOf_IgnoresOverride(opts, v) == DefaultState

\* { loading: false, success: false, error: null, data: null, ...(initialState || {}) }
InitialStateOf(opts, v) ==
  LET o == opts[Bundle(v)] IN
    [f \in DOMAIN DefaultState |->
       IF o.present /\ f \in DOMAIN o.initial[v] THEN o.initial[v][f] ELSE DefaultState[f]]

(***************************************************************************)
(* createTypedCrud: the options handed to useCRUD.  An options bundle is   *)
(* [present, impl, initial]: impl maps each member that is defined to the  *)
(* function it holds: "caller" (the caller's own function),                *)
(* "transformEntityToUI" or one of the factory's wrappers.                 *)
(***************************************************************************)

NoImpl == [n \in {} |-> "caller"]

PlainBundle(o) ==
  [present |-> o.present,
   impl |-> IF o.present THEN [n \in o.fns |-> "caller"] ELSE NoImpl,
   initial |-> o.initial]

\* const createOptions = options.create ? {...options.create, resultTransformer, afterService} : undefined
\* (updateOptions is the same code on options.update)
createOptions(o) ==
  IF o.present
    THEN [present |-> TRUE,
          impl |-> [n \in o.fns \cup {"resultTransformer", "afterService"} |->
                      IF n = "resultTransformer" THEN "transformEntityToUI"
                      ELSE IF n = "afterService"
                        THEN (IF "afterService" \in o.fns
                                THEN "wrapAfterService"
                                ELSE "transformEntityToUI")
                      ELSE "caller"],
          initial |-> o.initial]
    ELSE PlainBundle(o)

\* Variant: the read options are handed to useCRUD as the caller wrote them.
readOptions_Untouched(o) == PlainBundle(o)

\* const readOptions = options.read ? {...options.read, afterServiceOne, afterServiceMany} : undefined
readOptions(o) ==
  IF o.present
    THEN [present |-> TRUE,
          impl |-> [n \in o.fns \cup {"afterServiceOne", "afterServiceMany"} |->
                      IF n = "afterServiceOne" THEN "wrapAfterServiceOne"
                      ELSE IF n = "afterServiceMany" THEN "wrapAfterServiceMany"
                      ELSE "caller"],
          initial |-> o.initial]
    ELSE PlainBundle(o)

\* Variant: the delete options are wired like the create and update options.
typedOptions_WrapsDelete(opts) ==
  [b \in Bundles |->
     IF b \in CudVerbs THEN createOptions(opts[b])
     ELSE readOptions(opts[b])]

\* const typedOptions = {create: createOptions, update: updateOptions,
\*                       delete: options.delete, read: readOptions}
typedOptions(opts) ==
  [b \in Bundles |->
     IF b \in {"create", "update"} THEN createOptions(opts[b])
     ELSE IF b = "read" THEN readOptions(opts[b])
     ELSE PlainBundle(opts[b])]

\* The options useCRUD runs with.
options ==
  IF factory.typed THEN typedOptions(callerOptions)
  ELSE [b \in Bundles |-> PlainBundle(callerOptions[b])]

\* opOptions.<n> is defined, for the verb's bundle
Has(v, n) == options[Bundle(v)].present /\ n \in DOMAIN options[Bundle(v)].impl

ImplOf(v, n) == options[Bundle(v)].impl[n]

\* The caller supplied <n> in the bundle of verb v.
CallerHas(v, n) == callerOptions[Bundle(v)].present /\ n \in callerOptions[Bundle(v)].fns

(***************************************************************************)
(* The local variables of an execute call.  pc names the statement the     *)
(* call is at: a synchronous stage about to run, "await_<g>" while the     *)
(* promise returned by <g> is pending, "resolved"/"rejected" once settled. *)
(* trace lists what the call did: the functions it invoked with their      *)
(* arguments and the states it wrote.  snap is the verb's state at the     *)
(* instant the call settled; serial tells that no other execute call and   *)
(* no reset touched the verb while the call was in flight.                 *)
(***************************************************************************)

IdleCall ==
  [verb |-> "create", pc |-> "idle", data |-> Null, id |-> Null, processed |-> Null,
   serviceData |-> Null, serviceResult |-> Unset, result |-> Null, error |-> Unset,
   ret |-> Unset, snap |-> DefaultState, serial |-> TRUE, trace |-> <<>>]

AwaitPcs ==
  {"await_beforeValidation", "await_beforeService", "await_service",
   "await_afterService", "await_onSuccess", "await_onError"}

SettledPcs == {"resolved", "rejected"}

InFlight(l) == l.pc \notin SettledPcs \cup {"idle"}

\* The call invoked g(a, b).
Log(t, g, a, b) == [t EXCEPT !.trace = Append(@, [ev |-> g, a |-> a, b |-> b])]

\* setState(s): the cell is replaced and the write is recorded.
SetState(t, s) ==
  Log([t EXCEPT !.cell = s],
      "setState",
      <<IF s.loading THEN "loading" ELSE IF s.success THEN "success" ELSE "error">>,
      IF s.success THEN s.data ELSE s.error)

\* return v / throw v out of the async function: the promise settles.
Settle(t, how, v) == [t EXCEPT !.pc = how, !.ret = v, !.snap = t.cell]

\* throw e inside the try block: control moves to the catch clause.
Throw(t, e) == [t EXCEPT !.pc = "catch", !.error = e]

\* Variant: a configured hook is skipped like an absent one.
CallHook_Skips(t, g, a, b, skipTo) == [t EXCEPT !.pc = skipTo[2]]

\* Invoke the awaited hook g(a, b), or skip it when it is not configured.
CallHook(t, g, a, b, skipTo) ==
  IF Has(t.verb, g)
    THEN [(IF ImplOf(t.verb, g) = "caller" THEN Log(t, g, a, b) ELSE t)
            EXCEPT !.pc = "await_" \o skipTo[1]]
    ELSE [t EXCEPT !.pc = skipTo[2]]

\* Variant: the message names the verb.
ConfigError_NamesVerb(v) == Thrown(v \o " operation not configured")

\* throw new Error("Operation not configured") and the two read variants
ConfigError(v) ==
  IF v = "one" THEN Thrown("Read operation not configured")
  ELSE IF v = "many" THEN Thrown("Read many operation not configured")
  ELSE Thrown("Operation not configured")

\* Variant: only the options object is checked, not its backend function.
NotConfigured_OptionsOnly(v) == ~options[Bundle(v)].present

\* !opOptions || !opOptions.service ; !options.read || !options.read.service(.getOne|.getMany)
NotConfigured(v) == ~Has(v, ServiceFn(v))

\* Variant: a validation failure is recorded in the state but not thrown.
Validate_SwallowsFailure(t, ch) ==
  IF Has(t.verb, "validationSchema")
    THEN IF ch.parse
           THEN [Log(t, "parse", t.processed, Null)
                   EXCEPT !.pc = "transformer", !.processed = Apply("parse", t.processed)]
           ELSE [SetState(Log(t, "parse", t.processed, Null), ErrorState(Thrown("parse")))
                   EXCEPT !.pc = "transformer"]
    ELSE [t EXCEPT !.pc = "transformer"]

\* Variant: the output of schema.parse is dropped, the input goes on unvalidated.
Validate_KeepsInput(t, ch) ==
  IF Has(t.verb, "validationSchema")
    THEN IF ch.parse
           THEN [Log(t, "parse", t.processed, Null) EXCEPT !.pc = "transformer"]
           ELSE Throw(SetState(Log(t, "parse", t.processed, Null),
                               ErrorState(Thrown("parse"))),
                      Thrown("parse"))
    ELSE [t EXCEPT !.pc = "transformer"]

\* if (validationSchema) { try { processed = validationSchema.parse(processed) }
\*   catch (validationError) { setState(error state); throw typedError } }
\* The throw happens inside the enclosing try block, whose catch clause runs next.
Validate(t, ch) ==
  IF Has(t.verb, "validationSchema")
    THEN IF ch.parse
           THEN [Log(t, "parse", t.processed, Null)
                   EXCEPT !.pc = "transformer", !.processed = Apply("parse", t.processed)]
           ELSE Throw(SetState(Log(t, "parse", t.processed, Null),
                               ErrorState(Thrown("parse"))),
                      Thrown("parse"))
    ELSE [t EXCEPT !.pc = "transformer"]

(***************************************************************************)
(* executeOperation: the synchronous stages.  ch tells which of the        *)
(* synchronous caller functions (schema.parse, transformer,                *)
(* resultTransformer) return normally in this segment.                     *)
(***************************************************************************)
executeOperation(t, ch) ==
  LET v == t.verb IN
  CASE t.pc = "start" ->
         IF NotConfigured(v)
           THEN Settle(t, "rejected", ConfigError(v))
           ELSE [SetState(t, LoadingState) EXCEPT !.pc = "beforeValidation", !.processed = t.data]
    [] t.pc = "beforeValidation" ->
         CallHook(t, "beforeValidation", t.processed, Null, <<"beforeValidation", "validation">>)
    [] t.pc = "validation" -> Validate(t, ch)
    [] t.pc = "transformer" ->
         IF Has(v, "transformer")
           THEN IF ch.transformer
                  THEN [Log(t, "transformer", t.processed, Null)
                          EXCEPT !.pc = "beforeService",
                                 !.serviceData = Apply("transformer", t.processed)]
                  ELSE Throw(Log(t, "transformer", t.processed, Null), Thrown("transformer"))
           ELSE [t EXCEPT !.pc = "beforeService", !.serviceData = t.processed]
    [] t.pc = "beforeService" ->
         CallHook(t, "beforeService", t.serviceData, Null, <<"beforeService", "service">>)
    [] t.pc = "service" ->
         [Log(t, "service", t.serviceData, Null) EXCEPT !.pc = "await_service"]
    [] t.pc = "resultTransformer" ->
         IF Has(v, "resultTransformer")
           THEN LET g == IF ImplOf(v, "resultTransformer") = "caller"
                           THEN "resultTransformer" ELSE "infraEntityToUI" IN
                IF ch.resultTransformer
                  THEN [Log(t, g, t.serviceResult, Null)
                          EXCEPT !.pc = "afterService", !.result = Apply(g, t.serviceResult)]
                  ELSE Throw(Log(t, g, t.serviceResult, Null), Thrown(g))
           ELSE [t EXCEPT !.pc = "afterService", !.result = t.serviceResult]
    [] t.pc = "afterService" ->
         CallHook(t, "afterService", t.result, t.serviceData, <<"afterService", "success">>)
    [] t.pc = "success" ->
         [SetState(t, SuccessState(t.result)) EXCEPT !.pc = "onSuccess"]
    [] t.pc = "onSuccess" ->
         CallHook(t, "onSuccess", t.result, t.processed, <<"onSuccess", "return">>)
    [] t.pc = "return" -> Settle(t, "resolved", t.result)
    [] t.pc = "catch" ->
         [SetState(t, ErrorState(t.error)) EXCEPT !.pc = "onError"]
    [] t.pc = "onError" ->
         CallHook(t, "onError", t.error, t.data, <<"onError", "rethrow">>)
    [] t.pc = "rethrow" -> Settle(t, "rejected", t.error)

(***************************************************************************)
(* executeReadOne and executeReadMany: the synchronous stages.  Neither    *)
(* calls beforeValidation nor resultTransformer; validation, transformer   *)
(* and beforeService run only when params were passed.                     *)
(***************************************************************************)
\* Variant: the schema is applied whether or not params were passed.
ReadValidation_IgnoresParams(t, ch) == Validate(t, ch)

\* if (processedParams && options.read.validationSchema) { ... }
ReadValidation(t, ch) ==
  IF t.processed # Null THEN Validate(t, ch) ELSE [t EXCEPT !.pc = "transformer"]

\* Variant: the read pipeline skips the configured transformer.
ReadTransformer_Skipped(t, ch) == [t EXCEPT !.pc = "beforeService"]

ReadTransformer(t, ch) ==
  IF t.processed # Null /\ Has(t.verb, "transformer")
    THEN IF ch.transformer
           THEN [Log(t, "transformer", t.processed, Null)
                   EXCEPT !.pc = "beforeService", !.processed = Apply("transformer", t.processed)]
           ELSE Throw(Log(t, "transformer", t.processed, Null), Thrown("transformer"))
    ELSE [t EXCEPT !.pc = "beforeService"]

ReadBeforeService(t) ==
  IF t.processed # Null
    THEN CallHook(t, "beforeService", t.processed, Null, <<"beforeService", "service">>)
    ELSE [t EXCEPT !.pc = "service"]

executeReadOne(t, ch) ==
  LET v == t.verb IN
  CASE t.pc = "start" ->
         IF NotConfigured(v)
           THEN Settle(t, "rejected", ConfigError(v))
           ELSE [SetState(t, LoadingState) EXCEPT !.pc = "validation", !.processed = t.data]
    [] t.pc = "validation" -> ReadValidation(t, ch)
    [] t.pc = "transformer" -> ReadTransformer(t, ch)
    [] t.pc = "beforeService" -> ReadBeforeService(t)
    [] t.pc = "service" ->
         [Log(t, "getOne", t.id, t.processed) EXCEPT !.pc = "await_service"]
    [] t.pc = "afterService" ->
         CallHook(t, "afterServiceOne", t.result, t.id, <<"afterService", "success">>)
    [] t.pc = "success" ->
         [SetState(t, SuccessState(t.result)) EXCEPT !.pc = "onSuccess"]
    [] t.pc = "onSuccess" ->
         CallHook(t, "onSuccessOne", t.result, t.id, <<"onSuccess", "return">>)
    [] t.pc = "return" -> Settle(t, "resolved", t.result)
    [] t.pc = "catch" ->
         [SetState(t, ErrorState(t.error)) EXCEPT !.pc = "onError"]
    [] t.pc = "onError" ->
         CallHook(t, "onErrorOne", t.error, t.id, <<"onError", "rethrow">>)
    [] t.pc = "rethrow" -> Settle(t, "rejected", t.error)

executeReadMany(t, ch) ==
  LET v == t.verb IN
  CASE t.pc = "start" ->
         IF NotConfigured(v)
           THEN Settle(t, "rejected", ConfigError(v))
           ELSE [SetState(t, LoadingState) EXCEPT !.pc = "validation", !.processed = t.data]
    [] t.pc = "validation" -> ReadValidation(t, ch)
    [] t.pc = "transformer" -> ReadTransformer(t, ch)
    [] t.pc = "beforeService" -> ReadBeforeService(t)
    [] t.pc = "service" ->
         [Log(t, "getMany", t.processed, Null) EXCEPT !.pc = "await_service"]
    [] t.pc = "afterService" ->
         CallHook(t, "afterServiceMany", t.result, t.processed, <<"afterService", "success">>)
    [] t.pc = "success" ->
         [SetState(t, SuccessState(t.result)) EXCEPT !.pc = "onSuccess"]
    [] t.pc = "onSuccess" ->
         IF t.processed # Null
           THEN CallHook(t, "onSuccessMany", t.result, t.processed, <<"onSuccess", "return">>)
           ELSE [t EXCEPT !.pc = "return"]
    [] t.pc = "return" -> Settle(t, "resolved", t.result)
    [] t.pc = "catch" ->
         [SetState(t, ErrorState(t.error)) EXCEPT !.pc = "onError"]
    [] t.pc = "onError" ->
         IF t.data # Null
           THEN CallHook(t, "onErrorMany", t.error, t.data, <<"onError", "rethrow">>)
           ELSE [t EXCEPT !.pc = "rethrow"]
    [] t.pc = "rethrow" -> Settle(t, "rejected", t.error)

\* One synchronous stage of the call, by the function the verb is bound to.
Stage(t, ch) ==
  IF t.verb = "one" THEN executeReadOne(t, ch)
  ELSE IF t.verb = "many" THEN executeReadMany(t, ch)
  ELSE executeOperation(t, ch)

\* The call runs on until it awaits a pending promise or settles (each stage
\* is computed once, as the single member of a set).
RECURSIVE RunToAwait(_, _)
RunToAwait(t, ch) ==
  IF t.pc \in AwaitPcs \cup SettledPcs THEN t
  ELSE CHOOSE r \in {RunToAwait(s, ch) : s \in {Stage(t, ch)}} : TRUE

(***************************************************************************)
(* The functions createTypedCrud installs.                                 *)
(***************************************************************************)

\* Variant: the default element-wise mapping is used even when the caller
\* supplied a whole-result transformer.
transformReadManyResult_AlwaysMaps(r) ==
  [i \in DOMAIN r |-> IF i = 1 THEN r[i] ELSE r[i] \o ".infraEntityToUI"]

\* transformReadManyResult: the caller's whole-result transformer, or
\* {data: result.data.map(transformEntityToUI), meta: result.meta}
transformReadManyResult(r) ==
  IF factory.infraReadManyToUI
    THEN Apply("infraReadManyToUI", r)
    ELSE [i \in DOMAIN r |-> IF i = 1 THEN r[i] ELSE r[i] \o ".infraEntityToUI"]

\* The promise of the factory's afterService / afterServiceOne / afterServiceMany
\* settles.  out = "throw": the transformer throws; out = "throwInner": the
\* caller's hook called by the wrapper throws.
TypedAfterService(t, out) ==
  LET impl == ImplOf(t.verb, AfterServiceFn(t.verb))
      tf == Log(t, "infraEntityToUI", t.result, Null)
      r1 == Apply("infraEntityToUI", t.result)
  IN
  CASE impl = "transformEntityToUI" ->
         IF out = "ok" THEN [tf EXCEPT !.pc = "success", !.result = r1]
         ELSE Throw(tf, Thrown("infraEntityToUI"))
    [] impl = "wrapAfterService" ->
         IF out = "throw" THEN Throw(tf, Thrown("infraEntityToUI"))
         ELSE LET th == Log(tf, "afterService", r1, t.serviceData) IN
              IF out = "ok"
                THEN [th EXCEPT !.pc = "success", !.result = Apply("afterService", r1)]
                ELSE Throw(th, Thrown("afterService"))
    [] impl = "wrapAfterServiceOne" ->
         IF out = "throw" THEN Throw(tf, Thrown("infraEntityToUI"))
         ELSE LET th == IF CallerHas(t.verb, "onSuccessOne")
                          THEN Log(tf, "onSuccessOne", r1, t.id) ELSE tf IN
              IF out = "ok"
                THEN [th EXCEPT !.pc = "success", !.result = r1]
                ELSE Throw(th, Thrown("onSuccessOne"))
    [] impl = "wrapAfterServiceMany" ->
         LET g == IF factory.infraReadManyToUI THEN "infraReadManyToUI" ELSE "infraEntityToUI"
             tm == IF factory.infraReadManyToUI
                     THEN Log(t, g, t.result, Null)
                     ELSE Log(t, "map:infraEntityToUI", t.result, Null)
         IN
         IF t.result = Null /\ ~factory.infraReadManyToUI
           THEN Throw(t, Thrown("TypeError"))
         ELSE IF out = "throw" THEN Throw(tm, Thrown(g))
         ELSE LET r2 == transformReadManyResult(t.result)
                  th == IF CallerHas(t.verb, "onSuccessMany")
                          THEN Log(tm, "onSuccessMany", r2, t.processed) ELSE tm IN
              IF out = "ok"
                THEN [th EXCEPT !.pc = "success", !.result = r2]
                ELSE Throw(th, Thrown("onSuccessMany"))

\* The ways the promise a call awaits may settle.
OutcomesAt(t) ==
  {"ok", "throw"}
    \cup (IF t.pc = "await_service" THEN {"null"} ELSE {})
    \cup (IF t.pc = "await_afterService"
             /\ \/ ImplOf(t.verb, AfterServiceFn(t.verb)) = "wrapAfterService"
                \/ /\ ImplOf(t.verb, AfterServiceFn(t.verb)) = "wrapAfterServiceOne"
                   /\ CallerHas(t.verb, "onSuccessOne")
                \/ /\ ImplOf(t.verb, AfterServiceFn(t.verb)) = "wrapAfterServiceMany"
                   /\ CallerHas(t.verb, "onSuccessMany")
          THEN {"throwInner"} ELSE {})

(***************************************************************************)
(* The await expressions of the three executors: the awaited promise of    *)
(* call c settles as out and the assignment around the await completes.    *)
(***************************************************************************)
Awaited(t, out, c) ==
  LET v == t.verb IN
  CASE t.pc = "await_beforeValidation" ->
         IF out = "ok"
           THEN [t EXCEPT !.pc = "validation", !.processed = Apply("beforeValidation", @)]
           ELSE Throw(t, Thrown("beforeValidation"))
    [] t.pc = "await_beforeService" ->
         IF out = "ok"
           THEN IF v \in CudVerbs
                  THEN [t EXCEPT !.pc = "service", !.serviceData = Apply("beforeService", @)]
                  ELSE [t EXCEPT !.pc = "service", !.processed = Apply("beforeService", @)]
           ELSE Throw(t, Thrown("beforeService"))
    [] t.pc = "await_service" ->
         IF out = "throw" THEN Throw(t, Thrown(ServiceFn(v)))
         ELSE LET r == IF out = "ok" THEN BackendResult(c, v) ELSE Null IN
              IF v \in CudVerbs
                THEN [t EXCEPT !.pc = "resultTransformer", !.serviceResult = r]
                ELSE [t EXCEPT !.pc = "afterService", !.serviceResult = r, !.result = r]
    [] t.pc = "await_afterService" ->
         IF ImplOf(v, AfterServiceFn(v)) = "caller"
           THEN IF out = "ok"
                  THEN [t EXCEPT !.pc = "success", !.result = Apply(AfterServiceFn(v), @)]
                  ELSE Throw(t, Thrown(AfterServiceFn(v)))
           ELSE TypedAfterService(t, out)
    [] t.pc = "await_onSuccess" ->
         IF out = "ok" THEN [t EXCEPT !.pc = "return"]
         ELSE Throw(t, Thrown(OnSuccessFn(v)))
    [] t.pc = "await_onError" ->
         IF out = "ok" THEN [t EXCEPT !.pc = "rethrow"]
         ELSE Settle(t, "rejected", Thrown(OnErrorFn(v)))

(***************************************************************************)
(* Actions                                                                 *)
(***************************************************************************)

Choices == [parse : BOOLEAN, transformer : BOOLEAN, resultTransformer : BOOLEAN]

WithCell(l, s) == [f \in DOMAIN l \cup {"cell"} |-> IF f = "cell" THEN s ELSE l[f]]

WithoutCell(t) == [f \in DOMAIN t \ {"cell"} |-> t[f]]

\* Variant: a write is dropped while another call is in flight on the verb.
Commit_DropsOverlappedWrite(c, v, t, disturbs) ==
  /\ calls' = [d \in Calls |->
                 IF d = c THEN WithoutCell(t)
                 ELSE IF disturbs /\ InFlight(calls[d]) /\ calls[d].verb = v
                   THEN [calls[d] EXCEPT !.serial = FALSE]
                   ELSE calls[d]]
  /\ state' = IF \E d \in Calls : d # c /\ InFlight(calls[d]) /\ calls[d].verb = v
                THEN state
                ELSE [state EXCEPT ![v] = t.cell]

\* Variant: getOne and getMany write one cell shared by the read bundle.
Commit_WritesBundle(c, v, t, disturbs) ==
  /\ calls' = [d \in Calls |->
                 IF d = c THEN WithoutCell(t)
                 ELSE IF disturbs /\ InFlight(calls[d]) /\ calls[d].verb = v
                   THEN [calls[d] EXCEPT !.serial = FALSE]
                   ELSE calls[d]]
  /\ state' = [w \in Verbs |-> IF Bundle(w) = Bundle(v) THEN t.cell ELSE state[w]]

\* Call c ran a segment on verb v that ended in t: its locals and the cell
\* are stored; disturbs tells that the segment breaks the isolation of the
\* other calls in flight on v.
Commit(c, v, t, disturbs) ==
  /\ calls' = [d \in Calls |->
                 IF d = c THEN WithoutCell(t)
                 ELSE IF disturbs /\ InFlight(calls[d]) /\ calls[d].verb = v
                   THEN [calls[d] EXCEPT !.serial = FALSE]
                   ELSE calls[d]]
  /\ state' = [state EXCEPT ![v] = t.cell]

\* <verb>.execute(input): the call runs up to its first await.  Calls are
\* numbered in the order they are issued.
Execute(c, v, withParams) ==
  /\ calls[c].pc = "idle"
  /\ \A d \in Calls : d < c => calls[d].pc # "idle"
  /\ v \in CudVerbs => withParams
  /\ LET l0 == [IdleCall EXCEPT
                  !.verb = v, !.pc = "start",
                  !.data = IF withParams THEN Dto(c) ELSE Null,
                  !.id = IF v = "one" THEN IdOf(c) ELSE Null,
                  !.serial = \A d \in Calls : ~(InFlight(calls[d]) /\ calls[d].verb = v)]
     IN \E t \in {RunToAwait(WithCell(l0, state[v]), ch) : ch \in Choices} :
          Commit(c, v, t, TRUE)
  /\ UNCHANGED <<callerOptions, factory, crudService, adapter>>

\* Variant: a call awaiting its onError hook is never resumed.
Continue_StallsOnError(c) ==
  /\ calls[c].pc \in AwaitPcs \ {"await_onError"}
  /\ \E t0 \in {WithCell(calls[c], state[calls[c].verb])} :
       \E t \in {RunToAwait(a, ch) :
                   a \in {Awaited(t0, out, c) : out \in OutcomesAt(calls[c])},
                   ch \in Choices} :
         Commit(c, calls[c].verb, t, FALSE)
  /\ UNCHANGED <<callerOptions, factory, crudService, adapter>>

\* The promise call c awaits settles and the call runs up to its next await.
Continue(c) ==
  /\ calls[c].pc \in AwaitPcs
  /\ \E t0 \in {WithCell(calls[c], state[calls[c].verb])} :
       \E t \in {RunToAwait(a, ch) :
                   a \in {Awaited(t0, out, c) : out \in OutcomesAt(calls[c])},
                   ch \in Choices} :
         Commit(c, calls[c].verb, t, FALSE)
  /\ UNCHANGED <<callerOptions, factory, crudService, adapter>>

\* Variant: reset restores the configured initial state.
Reset_RestoresInitial(v) ==
  /\ state' = [state EXCEPT ![v] = InitialStateOf(options, v)]
  /\ calls' = [d \in Calls |->
                 IF InFlight(calls[d]) /\ calls[d].verb = v
                   THEN [calls[d] EXCEPT !.serial = FALSE]
                   ELSE calls[d]]
  /\ UNCHANGED <<callerOptions, factory, crudService, adapter>>

\* Variant: reset cancels the calls in flight on the verb.
Reset_CancelsCalls(v) ==
  /\ state' = [state EXCEPT ![v] = DefaultState]
  /\ calls' = [d \in Calls |->
                 IF InFlight(calls[d]) /\ calls[d].verb = v
                   THEN [calls[d] EXCEPT !.serial = FALSE, !.pc = "rejected"]
                   ELSE calls[d]]
  /\ UNCHANGED <<callerOptions, factory, crudService, adapter>>

\* <verb>.reset()
Reset(v) ==
  /\ state' = [state EXCEPT ![v] = DefaultState]
  /\ calls' = [d \in Calls |->
                 IF InFlight(calls[d]) /\ calls[d].verb = v
                   THEN [calls[d] EXCEPT !.serial = FALSE]
                   ELSE calls[d]]
  /\ UNCHANGED <<callerOptions, factory, crudService, adapter>>

Next ==
  \/ \E c \in Calls, v \in Verbs, withParams \in BOOLEAN : Execute(c, v, withParams)
  \/ \E c \in Calls : Continue(c)
  \/ \E v \in Verbs : Reset(v)

(***************************************************************************)
(* CrudService: the five methods of the infrastructure service.  A method  *)
(* call is kept in calls like an execute call: verb is the method, data    *)
(* the DTO or the read params, processed the entityData / queryParams      *)
(* handed to the api function, trace the transformer and api invocations.  *)
(***************************************************************************)

Methods ==
  {"CrudService.create", "CrudService.update", "CrudService.delete",
   "CrudService.getOne", "CrudService.getMany"}

ReadMethods == {"CrudService.getOne", "CrudService.getMany"}

\* this.api.<fn> of each method
ApiOf(m) ==
  CASE m = "CrudService.create" -> "api.create"
    [] m = "CrudService.update" -> "api.update"
    [] m = "CrudService.delete" -> "api.delete"
    [] m = "CrudService.getOne" -> "api.getOne"
    [] m = "CrudService.getMany" -> "api.getMany"

\* this.transformers.<fn> of each method
TransformerOf(m) ==
  CASE m = "CrudService.create" -> "createDtoToEntity"
    [] m = "CrudService.update" -> "updateDtoToEntity"
    [] m = "CrudService.delete" -> "deleteDtoToEntity"
    [] m \in ReadMethods -> "readParamsToQuery"

ApiFns == {ApiOf(m) : m \in Methods}

TransformerFns == {TransformerOf(m) : m \in Methods}

\* Variant: the message names the entity but not the verb.
NotImplemented_OmitsVerb(m) == Thrown("API not implemented for " \o crudService.entityName)

\* throw new Error(`Create API not implemented for ${this.entityName}`)
NotImplemented(m) ==
  LET label == CASE m = "CrudService.create" -> "Create"
                 [] m = "CrudService.update" -> "Update"
                 [] m = "CrudService.delete" -> "Delete"
                 [] m = "CrudService.getOne" -> "GetOne"
                 [] m = "CrudService.getMany" -> "GetMany"
  IN Thrown(label \o " API not implemented for " \o crudService.entityName)

\* Variant: the identifier is left out of the transformer's argument.
MergeId_DropsId(params, id) == params

\* { ...params, id }
MergeId(params, id) == params \o id

\* The argument readParamsToQuery / <verb>DtoToEntity is called with.
TransformerInput(t) ==
  IF t.verb = "CrudService.getOne" THEN MergeId(t.data, t.id) ELSE t.data

\* Variant: the transformer is applied whether or not it was supplied.
Transforms_Unconditional(t) == t.verb \in ReadMethods => t.data # Null

\* if (this.transformers?.createDtoToEntity) ... ; for the read methods
\* if (params && this.transformers?.readParamsToQuery) ...
Transforms(t) ==
  /\ TransformerOf(t.verb) \in crudService.transformers
  /\ t.verb \in ReadMethods => t.data # Null

\* return v / throw v out of the method: its promise settles.
Finish(t, how, v) == [t EXCEPT !.pc = how, !.ret = v]

\* The method invokes the api function and awaits its promise.
CallApi(t) ==
  IF t.verb = "CrudService.getOne"
    THEN [Log(t, ApiOf(t.verb), t.id, t.processed) EXCEPT !.pc = "await_api"]
    ELSE [Log(t, ApiOf(t.verb), t.processed, Null) EXCEPT !.pc = "await_api"]

\* A method from its invocation to the await of the api function; returns
\* tells whether the transformer returns normally.  The catch clause logs
\* and rethrows the error.
CrudMethod(t, returns) ==
  IF ApiOf(t.verb) \notin crudService.api
    THEN Finish(t, "rejected", NotImplemented(t.verb))
  ELSE IF Transforms(t)
    THEN LET tt == Log(t, TransformerOf(t.verb), TransformerInput(t), Null) IN
         IF returns
           THEN CallApi([tt EXCEPT !.processed = Apply(TransformerOf(t.verb), TransformerInput(t))])
           ELSE Finish([tt EXCEPT !.error = Thrown(TransformerOf(t.verb))],
                       "rejected", Thrown(TransformerOf(t.verb)))
  ELSE CallApi([t EXCEPT !.processed = t.data])

\* The verb whose backend result shape the method's api function resolves.
ShapeOf(m) == IF m = "CrudService.getMany" THEN "many" ELSE "one"

\* Variant: a failure of the api function is swallowed, the method resolves
\* with a fallback result.
ApiSettled_ResolvesOnError(t, out, c) ==
  IF out = "ok"
    THEN Finish([t EXCEPT !.serviceResult = BackendResult(c, ShapeOf(t.verb)),
                          !.result = BackendResult(c, ShapeOf(t.verb))],
                "resolved", BackendResult(c, ShapeOf(t.verb)))
    ELSE Finish([t EXCEPT !.error = Thrown(ApiOf(t.verb))], "resolved", Null)

\* const result = await this.api.<fn>(...); return result  /  catch: throw error
ApiSettled(t, out, c) ==
  IF out = "ok"
    THEN Finish([t EXCEPT !.serviceResult = BackendResult(c, ShapeOf(t.verb)),
                          !.result = BackendResult(c, ShapeOf(t.verb))],
                "resolved", BackendResult(c, ShapeOf(t.verb)))
    ELSE Finish([t EXCEPT !.error = Thrown(ApiOf(t.verb))], "rejected", Thrown(ApiOf(t.verb)))

\* crudService.<method>(input): the method runs up to its await.
ServiceCall(c, m, withParams) ==
  /\ calls[c].pc = "idle"
  /\ \A d \in Calls : d < c => calls[d].pc # "idle"
  /\ m \notin ReadMethods => withParams
  /\ LET l0 == [IdleCall EXCEPT
                  !.verb = m, !.pc = "start",
                  !.data = IF withParams THEN Dto(c) ELSE Null,
                  !.id = IF m = "CrudService.getOne" THEN IdOf(c) ELSE Null]
     IN \E returns \in BOOLEAN :
          calls' = [calls EXCEPT ![c] = CrudMethod(l0, returns)]
  /\ UNCHANGED <<callerOptions, factory, state, crudService, adapter>>

\* The promise of the api function settles and the method returns or rethrows.
ServiceReturn(c) ==
  /\ calls[c].pc = "await_api"
  /\ \E out \in {"ok", "throw"} :
       calls' = [calls EXCEPT ![c] = ApiSettled(calls[c], out, c)]
  /\ UNCHANGED <<callerOptions, factory, state, crudService, adapter>>

NextService ==
  \/ Next
  \/ \E c \in Calls, m \in Methods, withParams \in BOOLEAN : ServiceCall(c, m, withParams)
  \/ \E c \in Calls : ServiceReturn(c)

(***************************************************************************)
(* createZodValidationSchema: the adapter around a schema of the           *)
(* validation library.  The schema is described by what it does with the   *)
(* input at hand: it accepts it, it reports a sequence of failures (a      *)
(* ZodError, each failure a path and a message), or it throws some other   *)
(* value.                                                                  *)
(***************************************************************************)

\* Number of failures a ZodError carries.
MaxIssues == 2

Paths == {<<>>, <<"a">>, <<"b">>, <<"a", "b">>, <<"a.b">>}

Messages == {"m1", "m2"}

\* error.errors[i]: { path, message }
Issues == [path : Paths, message : Messages]

Schemas ==
  {[kind |-> "valid", issues |-> <<>>], [kind |-> "throws", issues |-> <<>>]}
    \cup {[kind |-> "ZodError", issues |-> q] :
            q \in UNION {[1..n -> Issues] : n \in 1..MaxIssues}}

AdapterMethods == {"parse", "parseAsync", "safeParse"}

\* err.path.join(".")
RECURSIVE Join(_)
Join(path) ==
  IF Len(path) = 0 THEN ""
  ELSE IF Len(path) = 1 THEN path[1]
  ELSE path[1] \o "." \o Join(Tail(path))

\* { message: "Validation failed", errors: {}, path: [] }
EmptyValidationError ==
  [message |-> "Validation failed", errors |-> [k \in {} |-> ""], path |-> <<>>]

\* Variant: a failure with an empty path is recorded under the empty key.
RecordIssue_KeysEveryPath(ve, err) ==
  [ve EXCEPT
     !.errors = [k \in DOMAIN ve.errors \cup {Join(err.path)} |->
                   IF k = Join(err.path) THEN err.message ELSE ve.errors[k]],
     !.path = IF Len(ve.path) = 0 /\ Len(err.path) > 0 THEN err.path ELSE ve.path]

\* Variant: every failure with a path overwrites the path field.
RecordIssue_LastPath(ve, err) ==
  [ve EXCEPT
     !.errors = IF Len(err.path) > 0
                  THEN [k \in DOMAIN ve.errors \cup {Join(err.path)} |->
                          IF k = Join(err.path) THEN err.message ELSE ve.errors[k]]
                  ELSE ve.errors,
     !.path = IF Len(err.path) > 0 THEN err.path ELSE ve.path]

\* The body of error.errors.forEach((err) => { ... })
RecordIssue(ve, err) ==
  [ve EXCEPT
     !.errors = IF Len(err.path) > 0
                  THEN [k \in DOMAIN ve.errors \cup {Join(err.path)} |->
                          IF k = Join(err.path) THEN err.message ELSE ve.errors[k]]
                  ELSE ve.errors,
     !.path = IF Len(ve.path) = 0 /\ Len(err.path) > 0 THEN err.path ELSE ve.path]

\* error.errors.forEach(...) on a fresh validationError
RECURSIVE ForEach(_, _)
ForEach(issues, ve) ==
  IF issues = <<>> THEN ve ELSE ForEach(Tail(issues), RecordIssue(ve, Head(issues)))

\* The outcome of a method: how it ended ("return" or "throw"; "resolve" and
\* "reject" for parseAsync are written the same) and what it handed over:
\* the parsed data, a ValidationError, {success: true, data},
\* {success: false, error} or the value the schema threw.
Outcome(how, what, ve) == [how |-> how, what |-> what, error |-> ve]

Pending == Outcome("pending", "none", EmptyValidationError)

\* parse: try { return schema.parse(data) } catch (error) {
\*   if (error instanceof z.ZodError) {...; throw validationError}  throw error }
parseOutcome(schema) ==
  IF schema.kind = "valid" THEN Outcome("return", "data", EmptyValidationError)
  ELSE IF schema.kind = "ZodError"
    THEN Outcome("throw", "ValidationError", ForEach(schema.issues, EmptyValidationError))
  ELSE Outcome("throw", "native", EmptyValidationError)

\* parseAsync: the same code around await schema.parseAsync(data)
parseAsyncOutcome(schema) ==
  IF schema.kind = "valid" THEN Outcome("return", "data", EmptyValidationError)
  ELSE IF schema.kind = "ZodError"
    THEN Outcome("throw", "ValidationError", ForEach(schema.issues, EmptyValidationError))
  ELSE Outcome("throw", "native", EmptyValidationError)

\* safeParse: const result = schema.safeParse(data), called outside any try
\* block; result.success ? {success: true, data} : {success: false, error}
safeParseOutcome(schema) ==
  IF schema.kind = "valid" THEN Outcome("return", "success", EmptyValidationError)
  ELSE IF schema.kind = "ZodError"
    THEN Outcome("return", "failure", ForEach(schema.issues, EmptyValidationError))
  ELSE Outcome("throw", "native", EmptyValidationError)

\* No adapter method is called in the behaviours of the hook and the service.
IdleAdapter == [schema |-> [kind |-> "valid", issues |-> <<>>],
                out |-> [m \in AdapterMethods |-> Pending]]

\* The adapter's method m is called on the input and ends as o.
Adapt(m, o) ==
  /\ adapter.out[m] = Pending
  /\ adapter' = [adapter EXCEPT !.out[m] = o]
  /\ UNCHANGED <<callerOptions, factory, state, calls, crudService>>

parse == Adapt("parse", parseOutcome(adapter.schema))

parseAsync == Adapt("parseAsync", parseAsyncOutcome(adapter.schema))

safeParse == Adapt("safeParse", safeParseOutcome(adapter.schema))

NextValidation == parse \/ parseAsync \/ safeParse

(***************************************************************************)
(* The configurations explored.                                            *)
(***************************************************************************)

NoInitial == [v \in Verbs |-> Null]

\* options.<bundle> is undefined
Absent == [present |-> FALSE, fns |-> {}, initial |-> NoInitial]

\* options.<bundle> defines exactly the members fns
With(fns) == [present |-> TRUE, fns |-> fns, initial |-> NoInitial]

\* create, update and delete are the same executeOperation bound to three
\* bundles and three cells, and getOne and getMany read one bundle: each
\* configuration gives every member to one verb, and to the others the
\* backend function alone, every member but the backend function, or nothing.
Configurations ==
  { [create |-> With(CudFns), update |-> With({"service"}),
     delete |-> Absent, read |-> Absent],
    [create |-> Absent, update |-> With(CudFns \ {"service"}),
     delete |-> With({"service"}), read |-> With(ReadFns \ {"getMany"})],
    [create |-> With({"service"}), update |-> Absent,
     delete |-> Absent, read |-> With(ReadFns \ {"getOne"})],
    [create |-> Absent, update |-> Absent,
     delete |-> Absent, read |-> With({"getOne", "getMany"})] }

PlainFactory == [typed |-> FALSE, infraReadManyToUI |-> FALSE, uiEntityToInfra |-> FALSE]

\* No CrudService method is called in the behaviours of the hook alone.
BareCrudService == [entityName |-> "Task", api |-> {}, transformers |-> {}]

Init ==
  /\ factory = PlainFactory
  /\ callerOptions \in Configurations
  /\ crudService = BareCrudService
  /\ adapter = IdleAdapter
  /\ state = [v \in Verbs |-> InitialStateOf(options, v)]
  /\ calls = [c \in Calls |-> IdleCall]

Spec == Init /\ [][Next]_vars

\* The hook is obtained from createTypedCrud({infraEntityToUI, ...}), with or
\* without the two optional transformers.
TypedFactories ==
  { [typed |-> TRUE, infraReadManyToUI |-> FALSE, uiEntityToInfra |-> FALSE],
    [typed |-> TRUE, infraReadManyToUI |-> FALSE, uiEntityToInfra |-> TRUE],
    [typed |-> TRUE, infraReadManyToUI |-> TRUE, uiEntityToInfra |-> TRUE] }

InitTyped ==
  /\ factory \in TypedFactories
  /\ callerOptions \in Configurations
  /\ factory.infraReadManyToUI => CallerHas("many", "getMany")
  /\ crudService = BareCrudService
  /\ adapter = IdleAdapter
  /\ state = [v \in Verbs |-> InitialStateOf(options, v)]
  /\ calls = [c \in Calls |-> IdleCall]

SpecTyped == InitTyped /\ [][Next]_vars

\* The hook wired with backend functions only, or with a transformer as the
\* single rewriting member of each verb.
ServiceConfigurations ==
  { [create |-> With({"service"}), update |-> With({"service"}),
     delete |-> With({"service"}), read |-> With({"getOne", "getMany"})],
    [create |-> With({"service", "transformer"}), update |-> Absent,
     delete |-> With({"service", "transformer"}),
     read |-> With({"getMany", "transformer"})] }

\* The CrudService instances: every api function with no transformer, with
\* every transformer, and an instance lacking some api functions.
CrudServices ==
  { [entityName |-> "Task", api |-> ApiFns, transformers |-> {}],
    [entityName |-> "Task", api |-> ApiFns, transformers |-> TransformerFns],
    [entityName |-> "User", api |-> {"api.update", "api.getOne"},
     transformers |-> TransformerFns] }

InitService ==
  /\ factory = PlainFactory
  /\ callerOptions \in ServiceConfigurations
  /\ crudService \in CrudServices
  /\ adapter = IdleAdapter
  /\ state = [v \in Verbs |-> InitialStateOf(options, v)]
  /\ calls = [c \in Calls |-> IdleCall]

\* The backend function and the hooks settle: the promise a call awaits is
\* eventually settled and the call resumed.
LiveConfigurations ==
  { [create |-> With({"service", "beforeService", "onSuccess", "onError"}),
     update |-> Absent, delete |-> Absent,
     read |-> With({"getMany", "validationSchema", "onErrorMany"})] }

InitLive ==
  /\ factory = PlainFactory
  /\ callerOptions \in LiveConfigurations
  /\ crudService = BareCrudService
  /\ adapter = IdleAdapter
  /\ state = [v \in Verbs |-> InitialStateOf(options, v)]
  /\ calls = [c \in Calls |-> IdleCall]

SpecLive == InitLive /\ [][Next]_vars /\ \A c \in Calls : WF_vars(Continue(c))

\* The hook and the CrudService it is meant to be wired to, called side by side.
SpecService == InitService /\ [][NextService]_vars

\* options.<bundle> defines the members fns and overrides the initial state
\* of one verb of the bundle.
WithInitial(fns, v, override) ==
  [present |-> TRUE, fns |-> fns, initial |-> [NoInitial EXCEPT ![v] = override]]

\* Configurations with initialState / initialStateOne / initialStateMany.
InitialConfigurations ==
  { [create |-> WithInitial({"service", "onSuccess", "onError"}, "create",
                            [data |-> <<"seed">>, success |-> TRUE]),
     update |-> WithInitial({"onError"}, "update", [loading |-> TRUE]),
     delete |-> Absent,
     read |-> WithInitial({"getOne", "getMany"}, "one",
                          [error |-> <<"Error", "stale">>])],
    [create |-> Absent,
     update |-> With({"service"}),
     delete |-> WithInitial({"service", "validationSchema"}, "delete",
                            [loading |-> TRUE, data |-> <<"seed">>]),
     read |-> WithInitial({"getMany", "onSuccessMany", "onErrorMany"}, "many",
                          [data |-> <<"seed">>, success |-> TRUE])] }

InitInitial ==
  /\ factory = PlainFactory
  /\ callerOptions \in InitialConfigurations
  /\ crudService = BareCrudService
  /\ adapter = IdleAdapter
  /\ state = [v \in Verbs |-> InitialStateOf(options, v)]
  /\ calls = [c \in Calls |-> IdleCall]

\* The hook configured with initial state overrides.
SpecInitial == InitInitial /\ [][Next]_vars

InitValidation ==
  /\ factory = PlainFactory
  /\ callerOptions = [b \in Bundles |-> Absent]
  /\ crudService = BareCrudService
  /\ adapter \in [schema : Schemas, out : {[m \in AdapterMethods |-> Pending]}]
  /\ state = [v \in Verbs |-> InitialStateOf(options, v)]
  /\ calls = [c \in Calls |-> IdleCall]

\* The three methods of one adapter applied to one input.
SpecValidation == InitValidation /\ [][NextValidation]_vars

(***************************************************************************)
(* Vocabulary of the properties                                            *)
(***************************************************************************)

Settled(l) == l.pc \in SettledPcs

\* The call passed the configuration check (it wrote the loading state).
Ran(l) == l.trace # <<>>

\* The call invoked g.
Invoked(l, g) == \E i \in DOMAIN l.trace : l.trace[i].ev = g

\* The positions of the call's trace at which it wrote a state of this kind.
Writes(l, kind) ==
  {i \in DOMAIN l.trace : l.trace[i].ev = "setState" /\ l.trace[i].a = <<kind>>}

(***************************************************************************)
(* C1.  For every verb, a configured execute call that no other execute    *)
(* call and no reset on the verb overlapped leaves the verb's state with   *)
(* loading = false at the moment it settles, on every exit path: success,  *)
(* validation failure, backend failure, failure of any hook.               *)
(***************************************************************************)
C1_SerializedCallSettlesNotLoading ==
  \A c \in Calls :
    (Settled(calls[c]) /\ Ran(calls[c]) /\ calls[c].serial)
      => calls[c].snap.loading = FALSE

\* A serialized call rejected because its onError hook threw, its state not loading.
C1_Witness ==
  \E c \in Calls :
    /\ calls[c].pc = "rejected" /\ calls[c].serial
    /\ calls[c].ret = Thrown(OnErrorFn(calls[c].verb))
    /\ calls[c].error = Thrown("parse")
    /\ calls[c].snap.loading = FALSE

(***************************************************************************)
(* C2.  With no initialState override, in every reachable state and for    *)
(* every verb: success and a non-null error never hold together, non-null  *)
(* data implies success, and loading implies no success, no error, no data.*)
(***************************************************************************)
C2_StateShape ==
  \A v \in Verbs :
    /\ ~(state[v].success /\ state[v].error # Null)
    /\ state[v].data # Null => state[v].success
    /\ state[v].loading =>
         (~state[v].success /\ state[v].error = Null /\ state[v].data = Null)

\* Two calls overlapped on one verb, one already resolved, and the cell holds data.
C2_Witness ==
  \E c, d \in Calls :
    /\ c # d /\ calls[c].verb = calls[d].verb
    /\ calls[c].pc = "resolved" /\ ~calls[c].serial
    /\ InFlight(calls[d])
    /\ state[calls[c].verb].success /\ state[calls[c].verb].data # Null

(***************************************************************************)
(* C3.  A serialized configured call whose backend result is not null      *)
(* leaves, when it settles, a state in which success = true iff            *)
(* error = null iff data # null: either the success state holding the      *)
(* call's result or the error state holding the thrown value.              *)
(***************************************************************************)
C3_SettledStateIsTerminal ==
  \A c \in Calls :
    (Settled(calls[c]) /\ Ran(calls[c]) /\ calls[c].serial
       /\ calls[c].serviceResult # Null)
      => LET s == calls[c].snap IN
           /\ s.success <=> (s.error = Null)
           /\ (s.error = Null) <=> (s.data # Null)
           /\ \/ s = [loading |-> FALSE, success |-> TRUE, error |-> Null,
                      data |-> calls[c].result]
              \/ s = [loading |-> FALSE, success |-> FALSE, error |-> calls[c].error,
                      data |-> Null]

\* A serialized call resolved with a non-null backend result, another one
\* rejected after the backend had resolved.
C3_Witness ==
  /\ \E c \in Calls :
       /\ calls[c].pc = "resolved" /\ calls[c].serial
       /\ calls[c].serviceResult \notin {Null, Unset}
       /\ calls[c].snap.success /\ calls[c].snap.data = calls[c].ret
  /\ \E c \in Calls :
       /\ calls[c].pc = "rejected" /\ calls[c].serial
       /\ calls[c].serviceResult \notin {Null, Unset}
       /\ calls[c].snap.error = calls[c].error /\ calls[c].snap.data = Null

(***************************************************************************)
(* C4.  When a validation schema is configured and schema.parse throws E,  *)
(* execute rejects with E itself, the call writes the error state holding  *)
(* E (which is the verb's state when a serialized call settles), and the   *)
(* backend function is never invoked for that call.                        *)
(***************************************************************************)
C4_ValidationFailureRejectsWithE ==
  \A c \in Calls :
    (Settled(calls[c]) /\ calls[c].error = Thrown("parse"))
      => /\ calls[c].pc = "rejected"
         /\ calls[c].ret = Thrown("parse")
         /\ \E i \in Writes(calls[c], "error") : calls[c].trace[i].b = Thrown("parse")
         /\ calls[c].serial =>
              calls[c].snap = [data |-> Null, loading |-> FALSE,
                               error |-> Thrown("parse"), success |-> FALSE]
         /\ ~Invoked(calls[c], ServiceFn(calls[c].verb))

(***************************************************************************)
(* C5.  When schema.parse throws, the call rethrows immediately: no later  *)
(* pipeline step runs for that call (transformer, beforeService, service,  *)
(* resultTransformer, afterService, onSuccess, and onError), and the       *)
(* terminal error state is written exactly once.                           *)
(***************************************************************************)
C5_ValidationFailureStopsPipeline ==
  \A c \in Calls :
    (Settled(calls[c]) /\ calls[c].error = Thrown("parse"))
      => /\ \A g \in {"transformer", "beforeService", ServiceFn(calls[c].verb),
                      "resultTransformer", AfterServiceFn(calls[c].verb),
                      OnSuccessFn(calls[c].verb), OnErrorFn(calls[c].verb)} :
              ~Invoked(calls[c], g)
         /\ Cardinality(Writes(calls[c], "error")) = 1

(***************************************************************************)
(* C6.  Whenever the backend function or a lifecycle hook throws V during  *)
(* a configured execute call, the error state the call writes holds V      *)
(* unchanged and the call rejects with that same V, whatever the           *)
(* configured onError hook does.                                           *)
(***************************************************************************)
C6_ThrownValueRecordedAndRethrown ==
  \A c \in Calls :
    (Settled(calls[c]) /\ calls[c].error # Unset)
      => /\ calls[c].pc = "rejected"
         /\ calls[c].ret = calls[c].error
         /\ \E i \in Writes(calls[c], "error") :
              /\ calls[c].trace[i].b = calls[c].error
              /\ \A j \in DOMAIN calls[c].trace :
                   (j > i /\ calls[c].trace[j].ev = "setState")
                     => calls[c].trace[j].b = calls[c].error

(***************************************************************************)
(* C7.  Calling execute on a verb whose options or whose backend function  *)
(* are absent rejects with the configuration error while every verb's      *)
(* state stays what it was before the call, and the call invokes no hook   *)
(* and no backend function.                                                *)
(***************************************************************************)
C7_UnconfiguredVerbLeavesStateAlone ==
  [][\A c \in Calls :
       (calls[c].pc = "idle" /\ calls'[c].pc # "idle"
         /\ ~CallerHas(calls'[c].verb, ServiceFn(calls'[c].verb)))
         => /\ state' = state
            /\ calls'[c].pc = "rejected"
            /\ calls'[c].ret \in {Thrown("Operation not configured"),
                                  Thrown("Read operation not configured"),
                                  Thrown("Read many operation not configured")}
            /\ calls'[c].trace = <<>>]_vars

\* execute was called on a verb configured with hooks, onError included, but
\* without a backend function, after another verb's call had written its state.
C7_Witness ==
  \E c, d \in Calls :
    /\ calls[c].pc = "rejected" /\ calls[c].trace = <<>>
    /\ ~CallerHas(calls[c].verb, ServiceFn(calls[c].verb))
    /\ CallerHas(calls[c].verb, "onError")
    /\ calls[c].ret = Thrown("Operation not configured")
    /\ d < c /\ state[calls[d].verb] # DefaultState
    /\ state[calls[c].verb] = DefaultState

(***************************************************************************)
(* C8.  The configuration errors of the orchestrator for unconfigured      *)
(* create, update and delete are distinguishable from one another (each    *)
(* names its verb).                                                        *)
(***************************************************************************)
C8_ConfigErrorsDistinguishVerbs ==
  \A c, d \in Calls :
    (/\ Settled(calls[c]) /\ ~Ran(calls[c])
     /\ Settled(calls[d]) /\ ~Ran(calls[d])
     /\ calls[c].verb # calls[d].verb)
      => calls[c].ret # calls[d].ret

(***************************************************************************)
(* C8 as amended.  The configuration error of the orchestrator does not    *)
(* name the verb: it is "Operation not configured" for create, update and  *)
(* delete alike, "Read operation not configured" for getOne and "Read many *)
(* operation not configured" for getMany.                                  *)
(***************************************************************************)
C8_ConfigErrorIsGeneric ==
  \A c \in Calls :
    (Settled(calls[c]) /\ ~Ran(calls[c]))
      => /\ calls[c].pc = "rejected"
         /\ calls[c].verb \in CudVerbs => calls[c].ret = Thrown("Operation not configured")
         /\ calls[c].verb = "one" => calls[c].ret = Thrown("Read operation not configured")
         /\ calls[c].verb = "many" =>
              calls[c].ret = Thrown("Read many operation not configured")

\* update was executed with only other verbs configured, and so was create:
\* both calls were rejected with the same error.
C8_Witness ==
  \E c, d \in Calls :
    /\ calls[c].verb = "update" /\ calls[d].verb = "create"
    /\ calls[c].pc = "rejected" /\ ~Ran(calls[c])
    /\ calls[d].pc = "rejected" /\ ~Ran(calls[d])
    /\ calls[c].ret = calls[d].ret
    /\ CallerHas("delete", "service")

(***************************************************************************)
(* C9.  Once an execute call has written the success state with result R,  *)
(* the outcome of onSuccess (returning or throwing) changes nothing: the   *)
(* call resolves with R and writes no other state after the success state. *)
(***************************************************************************)
C9_OnSuccessOutcomeIgnored ==
  \A c \in Calls :
    (Settled(calls[c]) /\ Writes(calls[c], "success") # {})
      => /\ calls[c].pc = "resolved"
         /\ calls[c].ret = calls[c].result
         /\ Writes(calls[c], "error") = {}

(***************************************************************************)
(* C10.  In an orchestrator produced by createTypedCrud with               *)
(* infraEntityToUI = f, a successful create or update whose backend        *)
(* resolves R resolves with exactly f(R), f applied once, and state.data   *)
(* holds that same value (the caller supplying no result hook of its own). *)
(***************************************************************************)
C10_TypedCreateResolvesWithFOfR ==
  \A c \in Calls :
    (/\ factory.typed
     /\ calls[c].verb \in {"create", "update"}
     /\ calls[c].pc = "resolved"
     /\ calls[c].serviceResult # Null
     /\ ~CallerHas(calls[c].verb, "afterService"))
      => /\ calls[c].ret = Apply("infraEntityToUI", calls[c].serviceResult)
         /\ calls[c].serial => calls[c].snap.data = calls[c].ret

\* The number of times the call invoked g.
Count(l, g) == Cardinality({i \in DOMAIN l.trace : l.trace[i].ev = g})

(***************************************************************************)
(* C11.  In an orchestrator produced by createTypedCrud with               *)
(* infraEntityToUI = f, a successful getOne whose backend resolves R       *)
(* resolves with f(R), f having been applied exactly once, and the         *)
(* read.one state holds that value when the call settles.                  *)
(***************************************************************************)
C11_TypedGetOneResolvesWithFOfR ==
  \A c \in Calls :
    (factory.typed /\ calls[c].verb = "one" /\ calls[c].pc = "resolved")
      => /\ calls[c].ret = Apply("infraEntityToUI", calls[c].serviceResult)
         /\ Count(calls[c], "infraEntityToUI") = 1
         /\ calls[c].serial => calls[c].snap = SuccessState(calls[c].ret)

\* A typed getOne resolved with the transformed entity of its backend result.
C11_Witness ==
  \E c \in Calls :
    /\ factory.typed /\ calls[c].verb = "one" /\ calls[c].pc = "resolved"
    /\ calls[c].serial
    /\ calls[c].serviceResult = BackendResult(c, "one")
    /\ calls[c].ret = <<"R", ToString(c), "infraEntityToUI">>
    /\ state["one"].data = calls[c].ret

(***************************************************************************)
(* C12.  createTypedCrud preserves the caller's lifecycle hooks on create, *)
(* update and read: in a successful call every supplied hook of the verb   *)
(* (beforeService when an input was passed, afterService /                 *)
(* afterServiceOne / afterServiceMany, onSuccess / onSuccessOne /          *)
(* onSuccessMany) has been invoked, and the result-receiving hooks were    *)
(* handed the UI-transformed backend result f(R).                          *)
(***************************************************************************)
C12_TypedPreservesCallerHooks ==
  \A c \in Calls :
    LET l == calls[c]
        v == l.verb
    IN
    (/\ factory.typed /\ v \in {"create", "update", "one"}
     /\ l.pc = "resolved" /\ l.serviceResult # Null)
      => /\ (CallerHas(v, "beforeService") /\ l.data # Null) => Invoked(l, "beforeService")
         /\ CallerHas(v, AfterServiceFn(v)) =>
              \E i \in DOMAIN l.trace :
                /\ l.trace[i].ev = AfterServiceFn(v)
                /\ l.trace[i].a = Apply("infraEntityToUI", l.serviceResult)
         /\ CallerHas(v, OnSuccessFn(v)) => Invoked(l, OnSuccessFn(v))

(***************************************************************************)
(* C13.  In an orchestrator produced by createTypedCrud, a resultTransformer*)
(* supplied by the caller on create or update is still applied in the      *)
(* pipeline of a successful call, and receives infraEntityToUI(R).         *)
(***************************************************************************)
C13_TypedAppliesCallerResultTransformer ==
  \A c \in Calls :
    LET l == calls[c] IN
    (/\ factory.typed /\ l.verb \in {"create", "update"}
     /\ CallerHas(l.verb, "resultTransformer")
     /\ l.pc = "resolved")
      => \E i \in DOMAIN l.trace :
           /\ l.trace[i].ev = "resultTransformer"
           /\ l.trace[i].a = Apply("infraEntityToUI", l.serviceResult)

(***************************************************************************)
(* C14.  In an orchestrator produced by createTypedCrud, a successful      *)
(* getMany whose backend resolves {data: d, meta: m} yields, without       *)
(* infraReadManyToUI, {data: d mapped element by element through           *)
(* infraEntityToUI in the same order, meta: m}; with infraReadManyToUI = g *)
(* it yields g(result) and infraEntityToUI is applied to no element.       *)
(***************************************************************************)
C14_TypedGetManyResult ==
  \A c \in Calls :
    LET l == calls[c]
        r == l.serviceResult
    IN
    (factory.typed /\ l.verb = "many" /\ l.pc = "resolved" /\ r # Null)
      => IF factory.infraReadManyToUI
           THEN /\ l.ret = Append(r, "infraReadManyToUI")
                /\ ~Invoked(l, "infraEntityToUI")
                /\ ~Invoked(l, "map:infraEntityToUI")
                /\ \A i \in DOMAIN r : l.ret[i] = r[i]
           ELSE /\ Len(l.ret) = Len(r)
                /\ l.ret[1] = r[1]
                /\ \A i \in 2..Len(r) : l.ret[i] = r[i] \o ".infraEntityToUI"
                /\ ~Invoked(l, "infraReadManyToUI")

\* A typed getMany resolved with its backend result transformed, through the
\* default element-wise mapping or through the caller's whole-result transformer.
C14_Witness ==
  \E c \in Calls :
    /\ factory.typed /\ calls[c].verb = "many" /\ calls[c].pc = "resolved"
    /\ calls[c].serviceResult = BackendResult(c, "many")
    /\ Len(calls[c].ret) >= 3
    /\ calls[c].ret[1] = "meta" \o ToString(c)
    /\ \/ ~factory.infraReadManyToUI /\ calls[c].ret[3] = "b" \o ToString(c) \o ".infraEntityToUI"
       \/ factory.infraReadManyToUI /\ calls[c].ret[4] = "infraReadManyToUI"

\* The arguments the call handed to g, one per invocation.
ArgsOf(l, g) == {l.trace[i].a : i \in {j \in DOMAIN l.trace : l.trace[j].ev = g}}

(***************************************************************************)
(* C15.  With no transformer, no validation schema and no rewriting hook   *)
(* configured, create, update and delete hand their input unchanged to the *)
(* backend: execute(dto) invokes service with dto, and the CrudService     *)
(* method called with dto invokes its api function with dto.               *)
(***************************************************************************)
C15_InputReachesBackendUnchanged ==
  \A c \in Calls :
    LET l == calls[c] IN
    /\ (/\ l.verb \in CudVerbs /\ Ran(l)
        /\ \A g \in {"transformer", "validationSchema", "beforeValidation", "beforeService"} :
             ~CallerHas(l.verb, g))
         => (Count(l, "service") = 1 /\ ArgsOf(l, "service") = {Dto(c)})
    /\ (/\ l.verb \in Methods \ ReadMethods /\ l.pc # "idle"
        /\ ApiOf(l.verb) \in crudService.api
        /\ TransformerOf(l.verb) \notin crudService.transformers)
         => (Count(l, ApiOf(l.verb)) = 1 /\ ArgsOf(l, ApiOf(l.verb)) = {Dto(c)})

\* delete.execute(dto) and CrudService.create(dto) both resolved, neither
\* with a transformer, each having handed its own dto to the backend.
C15_Witness ==
  \E c, d \in Calls :
    /\ calls[c].verb = "delete" /\ calls[c].pc = "resolved"
    /\ ~CallerHas("delete", "transformer")
    /\ ArgsOf(calls[c], "service") = {<<"dto", ToString(c)>>}
    /\ calls[d].verb = "CrudService.create" /\ calls[d].pc = "resolved"
    /\ crudService.transformers = {}
    /\ ArgsOf(calls[d], "api.create") = {<<"dto", ToString(d)>>}

(***************************************************************************)
(* C16.  getMany called with a params object and with no validation schema *)
(* and no beforeService passes that very object to the backend getMany     *)
(* when no transformer is configured, and exactly the transformer's output *)
(* when one is, both in read.many.execute and in CrudService.getMany.      *)
(***************************************************************************)
C16_GetManyParamsReachBackend ==
  \A c \in Calls :
    LET l == calls[c] IN
    /\ (/\ l.verb = "many" /\ l.data # Null
        /\ ~CallerHas("many", "validationSchema") /\ ~CallerHas("many", "beforeService"))
         => /\ l.pc \in {"await_service", "resolved"} => Count(l, "getMany") = 1
            /\ ArgsOf(l, "getMany") \subseteq
                 {IF CallerHas("many", "transformer")
                    THEN Append(Dto(c), "transformer") ELSE Dto(c)}
    /\ (l.verb = "CrudService.getMany" /\ l.data # Null)
         => /\ l.pc \in {"await_api", "resolved"} => Count(l, "api.getMany") = 1
            /\ ArgsOf(l, "api.getMany") \subseteq
                 {IF "readParamsToQuery" \in crudService.transformers
                    THEN Append(Dto(c), "readParamsToQuery") ELSE Dto(c)}

\* read.many.execute(params) and CrudService.getMany(params) both resolved,
\* neither with a transformer, each backend having received the params passed.
C16_Witness ==
  \E c, d \in Calls :
    /\ calls[c].verb = "many" /\ calls[c].pc = "resolved"
    /\ ~CallerHas("many", "transformer")
    /\ ArgsOf(calls[c], "getMany") = {<<"dto", ToString(c)>>}
    /\ calls[d].verb = "CrudService.getMany" /\ calls[d].pc = "resolved"
    /\ "readParamsToQuery" \notin crudService.transformers
    /\ ArgsOf(calls[d], "api.getMany") = {<<"dto", ToString(d)>>}

\* The state a setState event of a trace wrote.
WrittenState(e) ==
  [loading |-> e.a = <<"loading">>,
   success |-> e.a = <<"success">>,
   error |-> IF e.a = <<"error">> THEN e.b ELSE <<>>,
   data |-> IF e.a = <<"success">> THEN e.b ELSE <<>>]

\* The positions of the setState events of a trace.
AllWrites(tr) == {i \in DOMAIN tr : tr[i].ev = "setState"}

\* The largest member of a non-empty set of positions.
Last(S) == CHOOSE i \in S : \A j \in S : j <= i

(***************************************************************************)
(* C17.  For every verb, reset() sets the verb's state to exactly          *)
(* {loading: false, success: false, error: null, data: null}, whatever the *)
(* state was, with or without a call in flight, with or without an         *)
(* initialState override.  (A step that changes a verb's state while no    *)
(* call advances is a reset of that verb.)                                 *)
(***************************************************************************)
C17_ResetRestoresDefault ==
  [][(\A c \in Calls : calls'[c].pc = calls[c].pc /\ calls'[c].trace = calls[c].trace)
       => \A v \in Verbs :
            state'[v] # state[v]
              => state'[v] = [loading |-> FALSE, success |-> FALSE,
                              error |-> <<>>, data |-> <<>>]]_vars

\* A verb configured with an initialState override was reset while a call
\* on it was in flight: its state is the default, not the override.
C17_Witness ==
  \E c \in Calls :
    /\ calls[c].pc \in AwaitPcs
    /\ state[calls[c].verb] = [loading |-> FALSE, success |-> FALSE,
                               error |-> <<>>, data |-> <<>>]
    /\ callerOptions[Bundle(calls[c].verb)].initial[calls[c].verb] # <<>>

C19_OverlappingCallsLastWriteWins ==
  [][\A c \in Calls :
       LET v == calls'[c].verb
           n == Len(calls[c].trace)
           new == {i \in AllWrites(calls'[c].trace) : i > n}
       IN
       /\ (/\ calls[c].pc = "idle" /\ calls'[c].pc # "idle"
           /\ CallerHas(v, ServiceFn(v))
           /\ \E d \in Calls : InFlight(calls[d]) /\ calls[d].verb = v)
            => /\ calls'[c].trace # <<>>
               /\ calls'[c].trace[1] = [ev |-> "setState", a |-> <<"loading">>, b |-> <<>>]
               /\ calls'[c].pc \in AwaitPcs \cup SettledPcs
               /\ \A d \in Calls :
                    (d # c /\ InFlight(calls[d]))
                      => (calls'[d].pc = calls[d].pc /\ calls'[d].trace = calls[d].trace)
       /\ (calls'[c].verb \in Verbs /\ new # {})
            => state'[v] = WrittenState(calls'[c].trace[Last(new)])]_vars

\* Two overlapping calls on one verb both resolved, the second-issued one
\* first: the state holds the result of the first-issued call.
C19_Witness ==
  /\ calls[1].verb = calls[2].verb
  /\ calls[1].pc = "resolved" /\ calls[2].pc = "resolved"
  /\ ~calls[1].serial /\ ~calls[2].serial
  /\ calls[1].ret # calls[2].ret
  /\ calls[2].snap.data = calls[2].ret
  /\ state[calls[1].verb].success
  /\ state[calls[1].verb].data = calls[1].ret

C21_GetOneAlwaysMergesId ==
  \A c \in Calls :
    LET l == calls[c] IN
    (/\ l.verb = "CrudService.getOne" /\ l.pc # "idle"
     /\ "api.getOne" \in crudService.api
     /\ "readParamsToQuery" \in crudService.transformers)
      => /\ ArgsOf(l, "readParamsToQuery") = {l.data \o IdOf(c)}
         /\ \A i \in DOMAIN l.trace :
              l.trace[i].ev = "api.getOne"
                => (l.trace[i].a = IdOf(c)
                    /\ l.trace[i].b = Append(l.data \o IdOf(c), "readParamsToQuery"))

(***************************************************************************)
(* C21 as amended.  When readParamsToQuery is configured,                  *)
(* CrudService.getOne(id, params) calls it with the params merged with the *)
(* identifier and hands its output to api.getOne only when params was      *)
(* passed; when params is omitted the transformer is not called and        *)
(* api.getOne receives the identifier and undefined params.                *)
(***************************************************************************)
C21_GetOneMergesIdIntoGivenParams ==
  \A c \in Calls :
    LET l == calls[c] IN
    (/\ l.verb = "CrudService.getOne" /\ l.pc # "idle"
     /\ "api.getOne" \in crudService.api
     /\ "readParamsToQuery" \in crudService.transformers)
      => IF l.data # <<>>
           THEN /\ ArgsOf(l, "readParamsToQuery") = {l.data \o IdOf(c)}
                /\ \A i \in DOMAIN l.trace :
                     l.trace[i].ev = "api.getOne"
                       => (l.trace[i].a = IdOf(c)
                           /\ l.trace[i].b = Append(l.data \o IdOf(c), "readParamsToQuery"))
           ELSE /\ ~Invoked(l, "readParamsToQuery")
                /\ Count(l, "api.getOne") = 1
                /\ \A i \in DOMAIN l.trace :
                     l.trace[i].ev = "api.getOne"
                       => (l.trace[i].a = IdOf(c) /\ l.trace[i].b = <<>>)

\* getOne was called once with params and once without on a service with
\* readParamsToQuery: both calls resolved, only the first used the transformer.
C21_Witness ==
  \E c, d \in Calls :
    /\ calls[c].verb = "CrudService.getOne" /\ calls[d].verb = "CrudService.getOne"
    /\ calls[c].pc = "resolved" /\ calls[d].pc = "resolved"
    /\ "readParamsToQuery" \in crudService.transformers
    /\ calls[c].data # <<>> /\ Invoked(calls[c], "readParamsToQuery")
    /\ calls[d].data = <<>> /\ ~Invoked(calls[d], "readParamsToQuery")

(***************************************************************************)
(* C22.  The read verbs run the steps of the generic executor: on every    *)
(* getOne or getMany call a configured beforeValidation hook is invoked    *)
(* before validation, then the validation schema, the transformer and      *)
(* beforeService are applied, in that order, before the backend read       *)
(* function is invoked.                                                    *)
(***************************************************************************)
C22_ReadRunsGenericSteps ==
  \A c \in Calls :
    LET l == calls[c]
        At(g) == CHOOSE i \in DOMAIN l.trace : l.trace[i].ev = g
    IN
    (l.verb \in {"one", "many"} /\ Invoked(l, ServiceFn(l.verb)))
      => /\ \A g \in {"beforeValidation", "transformer", "beforeService"} :
              CallerHas(l.verb, g) => Invoked(l, g)
         /\ CallerHas(l.verb, "validationSchema") => Invoked(l, "parse")
         /\ (Invoked(l, "beforeValidation") /\ Invoked(l, "parse"))
              => At("beforeValidation") < At("parse")
         /\ (Invoked(l, "parse") /\ Invoked(l, "transformer"))
              => At("parse") < At("transformer")
         /\ (Invoked(l, "transformer") /\ Invoked(l, "beforeService"))
              => At("transformer") < At("beforeService")
         /\ Invoked(l, "beforeService") => At("beforeService") < At(ServiceFn(l.verb))

\* The methods of the adapter that were called on a schema reporting failures.
Translated ==
  {m \in AdapterMethods : adapter.schema.kind = "ZodError" /\ adapter.out[m].how # "pending"}

\* The positions of the reported failures that carry a path.
Located == {i \in DOMAIN adapter.schema.issues : adapter.schema.issues[i].path # <<>>}

(***************************************************************************)
(* C23.  When the schema reports failures, the ValidationError built by    *)
(* parse, parseAsync and safeParse alike has an errors map with an entry   *)
(* keyed by the "."-joined path of every failure, holding that failure's   *)
(* message.                                                                *)
(***************************************************************************)
C23_ErrorsMapHasEveryFailure ==
  \A m \in Translated :
    \A i \in DOMAIN adapter.schema.issues :
      LET err == adapter.schema.issues[i] IN
      /\ Join(err.path) \in DOMAIN adapter.out[m].error.errors
      /\ adapter.out[m].error.errors[Join(err.path)] = err.message

(***************************************************************************)
(* C23 as amended.  The errors map has exactly one entry per "."-joined    *)
(* path of the failures that have a non-empty path; a failure with an      *)
(* empty path is not recorded, and when several failures join to the same  *)
(* key the entry holds the message of the last of them.                    *)
(***************************************************************************)
C23_ErrorsMapHasLastMessagePerPath ==
  \A m \in Translated :
    LET issues == adapter.schema.issues
        errors == adapter.out[m].error.errors
    IN
    /\ adapter.out[m].error.message = "Validation failed"
    /\ DOMAIN errors = {Join(issues[i].path) : i \in Located}
    /\ \A i \in Located :
         (\A j \in Located : (j > i) => Join(issues[j].path) # Join(issues[i].path))
           => errors[Join(issues[i].path)] = issues[i].message

\* Two failures whose paths join to the same key with different messages:
\* the three methods built a map holding the second message.
C23_Witness ==
  /\ Translated = AdapterMethods
  /\ adapter.schema.issues = <<[path |-> <<"a", "b">>, message |-> "m1"],
                               [path |-> <<"a.b">>, message |-> "m2"]>>
  /\ \A m \in AdapterMethods :
       adapter.out[m].error.errors = [k \in {"a.b"} |-> "m2"]

(***************************************************************************)
(* C24.  The path field of the ValidationError equals the path segments of *)
(* the first failure of the sequence and is never overwritten by a later   *)
(* failure, for every failure sequence, those whose first failure has an   *)
(* empty path included.                                                    *)
(***************************************************************************)
C24_PathIsFirstFailurePath ==
  \A m \in Translated :
    adapter.out[m].error.path = adapter.schema.issues[1].path

(***************************************************************************)
(* C24 as amended.  The path field equals the path segments of the first   *)
(* failure that has a non-empty path (the empty path when no failure has   *)
(* one): failures with an empty path are passed over, and once set the     *)
(* field is not overwritten by a later failure.                            *)
(***************************************************************************)
C24_PathIsFirstNonEmptyPath ==
  \A m \in Translated :
    IF Located = {}
      THEN adapter.out[m].error.path = <<>>
      ELSE \E i \in Located :
             /\ \A j \in Located : i <= j
             /\ adapter.out[m].error.path = adapter.schema.issues[i].path

\* The first failure has an empty path and the second one has not: the
\* path field holds the second failure's path.
C24_Witness ==
  /\ Translated = AdapterMethods
  /\ Len(adapter.schema.issues) = 2
  /\ adapter.schema.issues[1].path = <<>>
  /\ adapter.schema.issues[2].path = <<"a", "b">>
  /\ \A m \in AdapterMethods : adapter.out[m].error.path = <<"a", "b">>

(***************************************************************************)
(* C25.  parse never lets the library's own error escape: every failure of *)
(* parse is a ValidationError {message, errors, path}; safeParse never     *)
(* throws: it returns {success: true, data} on valid input and             *)
(* {success: false, error: ValidationError} otherwise.                     *)
(***************************************************************************)
C25_AdapterOnlyRaisesValidationErrors ==
  /\ \A m \in {"parse", "parseAsync"} :
       adapter.out[m].how = "throw" => adapter.out[m].what = "ValidationError"
  /\ adapter.out["safeParse"].how # "throw"
  /\ adapter.out["safeParse"].how = "return" =>
       adapter.out["safeParse"].what =
         (IF adapter.schema.kind = "valid" THEN "success" ELSE "failure")

\* The functions an execute call may invoke.
PipelineFns ==
  {"beforeValidation", "parse", "transformer", "beforeService", "service", "getOne",
   "getMany", "resultTransformer", "afterService", "afterServiceOne", "afterServiceMany",
   "onSuccess", "onSuccessOne", "onSuccessMany", "onError", "onErrorOne", "onErrorMany"}

C27_OneLoadingThenOneTerminalWrite ==
  \A c \in Calls :
    LET l == calls[c] IN
    (Settled(l) /\ Ran(l))
      => /\ Writes(l, "loading") = {1}
         /\ Cardinality(Writes(l, "success") \cup Writes(l, "error")) = 1

\* The place of a trace event in the documented order of a successful call
\* (0 for an event that has no place in it).
Rank(e) ==
  CASE e.ev = "setState" /\ e.a = <<"loading">> -> 1
    [] e.ev = "beforeValidation" -> 2
    [] e.ev = "parse" -> 3
    [] e.ev = "transformer" -> 4
    [] e.ev = "beforeService" -> 5
    [] e.ev = "service" -> 6
    [] e.ev = "resultTransformer" -> 7
    [] e.ev = "afterService" -> 8
    [] e.ev = "setState" /\ e.a = <<"success">> -> 9
    [] e.ev = "onSuccess" -> 10
    [] OTHER -> 0

(***************************************************************************)
(* C28.  In a successful create, update or delete call the steps occur in  *)
(* this order, each at most once: loading state written, beforeValidation, *)
(* schema.parse, transformer, beforeService, service, resultTransformer,   *)
(* afterService, success state written, onSuccess, return; every           *)
(* configured step is there, and the success state holds the result        *)
(* afterService produced.                                                  *)
(***************************************************************************)
C28_SuccessfulCallStepOrder ==
  \A c \in Calls :
    LET l == calls[c]
        tr == l.trace
    IN
    (l.verb \in CudVerbs /\ l.pc = "resolved")
      => /\ \A i \in DOMAIN tr : Rank(tr[i]) > 0
         /\ \A i, j \in DOMAIN tr : (i < j) => Rank(tr[i]) < Rank(tr[j])
         /\ Rank(tr[1]) = 1
         /\ \A g \in {"beforeValidation", "transformer", "beforeService", "service",
                      "resultTransformer", "afterService", "onSuccess"} :
              CallerHas(l.verb, g) => Invoked(l, g)
         /\ CallerHas(l.verb, "validationSchema") => Invoked(l, "parse")
         /\ \E i \in Writes(l, "success") :
              /\ tr[i].b = l.ret
              /\ CallerHas(l.verb, "afterService") =>
                   l.ret = Append(tr[CHOOSE k \in DOMAIN tr : tr[k].ev = "afterService"].a,
                                  "afterService")

\* A create call with every member configured resolved after its ten steps.
C28_Witness ==
  \E c \in Calls :
    /\ calls[c].verb = "create" /\ calls[c].pc = "resolved"
    /\ Len(calls[c].trace) = 10
    /\ calls[c].trace[9].a = <<"success">>
    /\ calls[c].trace[10].ev = "onSuccess"

(***************************************************************************)
(* C29.  Every configured execute call begins by writing exactly           *)
(* {loading: true, success: false, error: null, data: null} to its verb's  *)
(* state, before any hook or validation runs, whatever the state held:     *)
(* earlier data, an earlier error or an initialState override.             *)
(***************************************************************************)
C29_CallBeginsWithLoadingWrite ==
  [][\A c \in Calls :
       LET v == calls'[c].verb
           tr == calls'[c].trace
       IN
       (/\ calls[c].pc = "idle" /\ calls'[c].pc # "idle"
        /\ CallerHas(v, ServiceFn(v)))
         => /\ tr # <<>>
            /\ tr[1] = [ev |-> "setState", a |-> <<"loading">>, b |-> <<>>]
            /\ AllWrites(tr) = {1}
                 => state'[v] = [loading |-> TRUE, success |-> FALSE,
                                 error |-> <<>>, data |-> <<>>]]_vars

\* getMany was executed on a cell created with initialStateMany holding data:
\* the call awaits its backend and the cell holds the bare loading state.
C29_Witness ==
  \E c \in Calls :
    /\ calls[c].verb = "many" /\ calls[c].pc = "await_service"
    /\ \A d \in Calls : d # c => calls[d].pc = "idle"
    /\ callerOptions["read"].initial["many"] # <<>>
    /\ state["many"] = [loading |-> TRUE, success |-> FALSE, error |-> <<>>, data |-> <<>>]

\* The input of call c after beforeValidation and schema.parse, as configured.
ValidatedInput(c) ==
  LET v == calls[c].verb
      i1 == IF CallerHas(v, "beforeValidation")
              THEN Append(Dto(c), "beforeValidation") ELSE Dto(c)
  IN IF CallerHas(v, "validationSchema") THEN Append(i1, "parse") ELSE i1

(***************************************************************************)
(* C30.  In a create, update or delete call, onError is invoked after the  *)
(* error state has been written and receives the thrown value with the     *)
(* original input of execute, not the input rewritten by beforeValidation  *)
(* or validation; onSuccess receives the final result with the validated   *)
(* input, the output of beforeValidation and schema.parse.                 *)
(***************************************************************************)
C30_HookArguments ==
  \A c \in Calls :
    LET l == calls[c]
        tr == l.trace
    IN
    l.verb \in CudVerbs
      => \A i \in DOMAIN tr :
           /\ tr[i].ev = "onError"
                => /\ tr[i].b = Dto(c)
                   /\ \E j \in Writes(l, "error") : j < i /\ tr[j].b = tr[i].a
                   /\ \E k \in DOMAIN tr :
                        k < i /\ tr[k].ev # "setState" /\ tr[i].a = <<"Error", tr[k].ev>>
           /\ tr[i].ev = "onSuccess"
                => /\ tr[i].b = ValidatedInput(c)
                   /\ \E j \in Writes(l, "success") : j < i /\ tr[j].b = tr[i].a
                   /\ l.pc = "resolved" => l.ret = tr[i].a

\* Two calls with beforeValidation and a schema configured: one resolved
\* after onSuccess, one rejected after onError got the original input.
C30_Witness ==
  \E c, d \in Calls :
    /\ calls[c].verb \in CudVerbs /\ calls[d].verb \in CudVerbs
    /\ CallerHas(calls[c].verb, "beforeValidation")
    /\ calls[c].pc = "resolved" /\ Invoked(calls[c], "onSuccess")
    /\ Invoked(calls[c], "parse")
    /\ calls[d].pc = "rejected" /\ Invoked(calls[d], "onError")
    /\ Invoked(calls[d], "beforeValidation")

(***************************************************************************)
(* C31.  A throw from beforeValidation during execute is handled like any  *)
(* other hook failure: the call writes the error state holding the thrown  *)
(* value, onError is invoked, the service is never invoked, and the call   *)
(* rejects with the thrown value.                                          *)
(***************************************************************************)
C31_BeforeValidationFailure ==
  \A c \in Calls :
    LET l == calls[c] IN
    (l.verb \in CudVerbs /\ Settled(l) /\ l.error = Thrown("beforeValidation"))
      => /\ \E i \in Writes(l, "error") : l.trace[i].b = Thrown("beforeValidation")
         /\ l.serial => l.snap = [data |-> <<>>, loading |-> FALSE,
                                  error |-> Thrown("beforeValidation"), success |-> FALSE]
         /\ CallerHas(l.verb, "onError") => Invoked(l, "onError")
         /\ ~Invoked(l, "service")
         /\ l.pc = "rejected"
         /\ l.ret = Thrown("beforeValidation")

\* The label a CrudService method's error message carries for its verb.
VerbLabel(m) ==
  CASE m = "CrudService.create" -> "Create"
    [] m = "CrudService.update" -> "Update"
    [] m = "CrudService.delete" -> "Delete"
    [] m = "CrudService.getOne" -> "GetOne"
    [] m = "CrudService.getMany" -> "GetMany"

(***************************************************************************)
(* C32.  Each CrudService method (create, update, delete, getOne, getMany) *)
(* whose api function was not supplied rejects with an error naming both   *)
(* the entity name and the missing verb, and invokes no transformer and no *)
(* api function.                                                           *)
(***************************************************************************)
C32_MissingApiRejects ==
  \A c \in Calls :
    LET l == calls[c] IN
    (l.verb \in Methods /\ l.pc # "idle" /\ ApiOf(l.verb) \notin crudService.api)
      => /\ l.pc = "rejected"
         /\ l.ret = <<"Error", VerbLabel(l.verb) \o " API not implemented for "
                                 \o crudService.entityName>>
         /\ l.trace = <<>>
         /\ \A d \in Calls :
              (/\ calls[d].verb \in Methods /\ calls[d].pc # "idle"
               /\ ApiOf(calls[d].verb) \notin crudService.api
               /\ calls[d].verb # l.verb)
                => calls[d].ret # l.ret

\* Two methods without api function were called on an instance that has the
\* transformers of both: both rejected, each with its own message.
C32_Witness ==
  \E c, d \in Calls :
    /\ calls[c].verb = "CrudService.create" /\ calls[d].verb = "CrudService.getMany"
    /\ calls[d].data # Null
    /\ {"api.create", "api.getMany"} \cap crudService.api = {}
    /\ {"createDtoToEntity", "readParamsToQuery"} \subseteq crudService.transformers
    /\ calls[c].pc = "rejected" /\ calls[d].pc = "rejected"
    /\ calls[c].ret = Thrown("Create API not implemented for User")
    /\ calls[d].ret = Thrown("GetMany API not implemented for User")

(***************************************************************************)
(* C33.  For every CrudService method, an error thrown by the transformer  *)
(* (DTO to entity, params to query) or by the api function is rethrown to  *)
(* the caller as the identical value, neither wrapped nor replaced by a    *)
(* fallback result, and the api function is invoked at most once per       *)
(* method call.                                                            *)
(***************************************************************************)
C33_ServiceErrorsRethrown ==
  \A c \in Calls :
    LET l == calls[c]
        n == Len(l.trace)
    IN
    l.verb \in Methods
      => /\ Count(l, ApiOf(l.verb)) <= 1
         /\ (Settled(l) /\ l.error # Unset)
              => /\ l.pc = "rejected"
                 /\ l.ret = l.error
                 /\ n > 0 /\ l.ret = <<"Error", l.trace[n].ev>>
                 /\ l.trace[n].ev \in {TransformerOf(l.verb), ApiOf(l.verb)}
         /\ (l.pc = "resolved")
              => /\ l.error = Unset
                 /\ Count(l, ApiOf(l.verb)) = 1
                 /\ l.ret = BackendResult(c, ShapeOf(l.verb))

\* One method call rejected with what its transformer threw, before any api
\* call; another rejected with what its api function threw.
C33_Witness ==
  \E c, d \in Calls :
    /\ calls[c].verb \in Methods /\ calls[d].verb \in Methods
    /\ calls[c].pc = "rejected" /\ calls[d].pc = "rejected"
    /\ calls[c].ret = Thrown(TransformerOf(calls[c].verb))
    /\ ~Invoked(calls[c], ApiOf(calls[c].verb))
    /\ calls[d].ret = Thrown(ApiOf(calls[d].verb))
    /\ Invoked(calls[d], TransformerOf(calls[d].verb))

(***************************************************************************)
(* C34.  The five per-verb state cells are independent: a step of an       *)
(* execute call or a reset on one verb (create, update, delete, read.one,  *)
(* read.many) never changes the state of any other verb, in any            *)
(* interleaving; getOne and getMany share one options bundle but never     *)
(* write each other's state.                                               *)
(***************************************************************************)
C34_CellsAreIndependent ==
  [][/\ Cardinality({v \in Verbs : state'[v] # state[v]}) <= 1
     /\ \A c \in Calls :
          (calls'[c].pc # calls[c].pc \/ calls'[c].trace # calls[c].trace)
            => \A v \in Verbs \ {calls'[c].verb} : state'[v] = state[v]]_vars

\* getOne resolved and its cell holds the result while getMany, configured in
\* the same bundle, is in flight and its cell is loading.
C34_Witness ==
  \E c, d \in Calls :
    /\ calls[c].verb = "one" /\ calls[c].pc = "resolved"
    /\ calls[d].verb = "many" /\ InFlight(calls[d])
    /\ state["one"].success /\ state["one"].data = calls[c].ret
    /\ state["many"].loading /\ state["many"].data = <<>>

\* The initialState / initialStateOne / initialStateMany the caller gave for verb v.
OverrideOf(v) == callerOptions[Bundle(v)].initial[v]

(***************************************************************************)
(* C35.  A verb's state is created as the defaults {loading: false,        *)
(* success: false, error: null, data: null} overridden field by field by   *)
(* the configured initialState (fields absent from the override keep their *)
(* default), and it keeps that value until the first configured execute or *)
(* reset on that verb.                                                     *)
(***************************************************************************)
C35_InitialStateKeptUntilFirstWrite ==
  /\ \A v \in Verbs :
       state[v] = [loading |-> IF "loading" \in DOMAIN OverrideOf(v)
                                 THEN OverrideOf(v).loading ELSE FALSE,
                   success |-> IF "success" \in DOMAIN OverrideOf(v)
                                 THEN OverrideOf(v).success ELSE FALSE,
                   error |-> IF "error" \in DOMAIN OverrideOf(v)
                               THEN OverrideOf(v).error ELSE <<>>,
                   data |-> IF "data" \in DOMAIN OverrideOf(v)
                              THEN OverrideOf(v).data ELSE <<>>]
  /\ [][\A v \in Verbs :
          state'[v] # state[v]
            => \/ \E c \in Calls :
                    /\ calls'[c].verb = v
                    /\ CallerHas(v, ServiceFn(v))
                    /\ calls'[c].trace # calls[c].trace
               \/ /\ \A c \in Calls : calls'[c].pc = calls[c].pc
                  /\ state'[v] = [loading |-> FALSE, success |-> FALSE,
                                  error |-> <<>>, data |-> <<>>]]_vars

\* update was created with initialState {loading: true} and without a backend
\* function: an execute on it was rejected and the cell still holds the
\* defaults with loading overridden.
C35_Witness ==
  \E c \in Calls :
    /\ calls[c].verb = "update" /\ calls[c].pc = "rejected" /\ calls[c].trace = <<>>
    /\ OverrideOf("update") = [loading |-> TRUE]
    /\ state["update"] = [loading |-> TRUE, success |-> FALSE, error |-> <<>>, data |-> <<>>]

(***************************************************************************)
(* C36.  For every verb and any interleaving of execute calls and resets   *)
(* on it, once every in-flight call on that verb has settled the verb's    *)
(* state has loading = false.                                              *)
(***************************************************************************)
C36_NoCallInFlightNotLoading ==
  \A v \in Verbs :
    (\A c \in Calls : ~(InFlight(calls[c]) /\ calls[c].verb = v))
      => ~state[v].loading

(***************************************************************************)
(* C36 as amended.  For every verb and any interleaving of execute calls   *)
(* and resets on it, once every in-flight call on that verb has settled    *)
(* the verb's state has loading = false, unless the cell was created with  *)
(* initialState {loading: true} and no configured execute call and no      *)
(* reset has written it yet: the last write to a cell is always a terminal *)
(* write or a reset, never a loading write.                                *)
(***************************************************************************)
C36_NotLoadingOnceWritten ==
  \A v \in Verbs :
    (/\ \A c \in Calls : ~(InFlight(calls[c]) /\ calls[c].verb = v)
     /\ state[v].loading)
      => /\ "loading" \in DOMAIN OverrideOf(v) /\ OverrideOf(v).loading
         /\ \A c \in Calls : calls[c].verb = v => ~Ran(calls[c])
         /\ \A f \in DOMAIN OverrideOf(v) : state[v][f] = OverrideOf(v)[f]

\* Two calls overlapped on a verb created with initialState {loading: true};
\* both have settled and the cell is not loading.
C36_Witness ==
  \E c, d \in Calls :
    /\ c # d /\ calls[c].verb = calls[d].verb
    /\ Settled(calls[c]) /\ Settled(calls[d])
    /\ ~calls[c].serial /\ ~calls[d].serial
    /\ "loading" \in DOMAIN OverrideOf(calls[c].verb)
    /\ ~state[calls[c].verb].loading

\* The steps that run before the backend function.
StepsBeforeService == {"beforeValidation", "parse", "transformer", "beforeService"}

(***************************************************************************)
(* C37.  Each execute call invokes the backend function at most once, and  *)
(* never invokes it when beforeValidation, schema.parse, transformer or    *)
(* beforeService threw earlier in that call; a call that reaches the       *)
(* success state has invoked the backend function exactly once.            *)
(***************************************************************************)
C37_BackendInvokedAtMostOnce ==
  \A c \in Calls :
    LET l == calls[c]
        tr == l.trace
        svc == {i \in DOMAIN tr : tr[i].ev = ServiceFn(l.verb)}
    IN
    l.verb \in Verbs
      => /\ Cardinality(svc) <= 1
         /\ l.error \in {<<"Error", g>> : g \in StepsBeforeService} => svc = {}
         /\ \A i \in svc : \A j \in Writes(l, "error") : i < j
         /\ Writes(l, "success") # {}
              => /\ Cardinality(svc) = 1
                 /\ \A i \in svc : \A j \in Writes(l, "success") : i < j

\* One call resolved after a single backend invocation; another was rejected
\* because beforeService threw, without any backend invocation.
C37_Witness ==
  \E c, d \in Calls :
    /\ calls[c].pc = "resolved" /\ Count(calls[c], ServiceFn(calls[c].verb)) = 1
    /\ calls[d].pc = "rejected" /\ calls[d].error = Thrown("beforeService")
    /\ Invoked(calls[d], "beforeService")
    /\ ~Invoked(calls[d], ServiceFn(calls[d].verb))

(***************************************************************************)
(* C38.  In an orchestrator produced by createTypedCrud, a caller-supplied *)
(* onSuccessOne (respectively onSuccessMany) is invoked exactly once per   *)
(* successful getOne (respectively getMany with params), and that          *)
(* invocation happens after the read verb's success state was written.     *)
(***************************************************************************)
C38_TypedOnSuccessOnceAfterWrite ==
  \A c \in Calls :
    LET l == calls[c]
        g == OnSuccessFn(l.verb)
    IN
    (/\ factory.typed
     /\ l.verb \in {"one", "many"}
     /\ l.verb = "many" => l.data # Null
     /\ l.pc = "resolved"
     /\ CallerHas(l.verb, g))
      => /\ Count(l, g) = 1
         /\ \A i \in DOMAIN l.trace :
              l.trace[i].ev = g => \E j \in Writes(l, "success") : j < i

\* The value the caller's own members leave for the backend function: the
\* input after beforeValidation, schema.parse, transformer and beforeService.
ServiceInput(c) ==
  LET v == calls[c].verb
      i2 == ValidatedInput(c)
      i3 == IF CallerHas(v, "transformer") THEN Append(i2, "transformer") ELSE i2
  IN IF CallerHas(v, "beforeService") THEN Append(i3, "beforeService") ELSE i3

C40_ReadWithoutParams ==
  \A c \in Calls :
    LET l == calls[c]
        tr == l.trace
    IN
    (l.verb \in {"one", "many"} /\ l.data = <<>> /\ Ran(l))
      => /\ \A g \in {"parse", "transformer", "beforeService"} : ~Invoked(l, g)
         /\ \A i \in DOMAIN tr :
              /\ tr[i].ev = "getOne" => (tr[i].a = IdOf(c) /\ tr[i].b = <<>>)
              /\ tr[i].ev = "getMany" => tr[i].a = <<>>
         /\ l.verb = "many"
              => /\ ~Invoked(l, "onSuccessMany") /\ ~Invoked(l, "onErrorMany")
                 /\ l.pc = "resolved"
                      => \E i \in Writes(l, "success") : tr[i].b = l.ret
                 /\ l.pc = "rejected"
                      => \E i \in Writes(l, "error") :
                           /\ tr[i].b = l.ret
                           /\ \E k \in DOMAIN tr : k < i /\ l.ret = <<"Error", tr[k].ev>>

\* getMany was executed without params in a configuration with a schema, a
\* transformer, beforeService, onSuccessMany and onErrorMany: one call
\* resolved, another was rejected because the backend threw.
C40_Witness ==
  \E c, d \in Calls :
    /\ calls[c].verb = "many" /\ calls[d].verb = "many"
    /\ calls[c].data = <<>> /\ calls[d].data = <<>>
    /\ {"validationSchema", "transformer", "beforeService",
        "onSuccessMany", "onErrorMany"} \subseteq callerOptions["read"].fns
    /\ calls[c].pc = "resolved" /\ calls[d].pc = "rejected"
    /\ calls[d].ret = <<"Error", "getMany">>

====
